---- MODULE Spec2Model ----
(***************************************************************************)
(* Verification model of the quicker QUIC endpoint.                        *)
(*                                                                         *)
(* Part 1: CongestionControl (congestion-control/congestion.control.ts).   *)
(* The controller is an event handler object: queuePackets is called by    *)
(* the connection, onPacketAcked / onPacketsLost /                         *)
(* onRetransmissionTimeoutVerified are called by the LossDetection         *)
(* instances, and sendPackets drains the queue at the end of the handlers  *)
(* that call it.  Every handler runs to completion (single threaded), so   *)
(* each action below is one whole handler, its trailing sendPackets        *)
(* included.                                                               *)
(*                                                                         *)
(* Part 2: FrameParser (utilities/parsers/frame.parser.ts) and             *)
(* PacketHandler (packet/packet.handler.ts): the payload of a packet is    *)
(* parsed into frames, and the frames are handed to the frame handler.     *)
(*                                                                         *)
(* Part 3: Server (quicker/server.ts): a datagram is taken apart into      *)
(* packets, and every packet is looked up, parsed and handled.             *)
(*                                                                         *)
(* Part 4: TransportParameters (crypto/transport.parameters.ts): the       *)
(* parameters are set and read, written to an extension buffer and read    *)
(* back from one.                                                          *)
(*                                                                         *)
(* Each part has its own variables and its own specification (Spec,        *)
(* FrameSpec, ServerSpec, TransportSpec and ExtensionSpec); the variables  *)
(* of the other parts stay as they are.                                    *)
(***************************************************************************)
EXTENDS Integers, Sequences, FiniteSets, TLC

(***************************************************************************)
(* Bounds of the model.                                                    *)
(***************************************************************************)
\* Packets handed to the controller over one behaviour.
MaxPackets == 3
\* Packets in one queuePackets call.
MaxBatch == 2

(***************************************************************************)
(* Constants of the program.                                               *)
(***************************************************************************)
DEFAULT_MSS == 1460
INITIAL_WINDOW == DEFAULT_MSS * 10
MINIMUM_WINDOW == DEFAULT_MSS * 2
\* LOSS_REDUCTION_FACTOR is 0.5: the window is multiplied by 1 / 2.
LOSS_REDUCTION_DIVISOR == 2
\* Bignum.infinity(): larger than every window the bounds allow.
Infinity == 2000000000
\* The packet number of a packet no crypto context numbered (VNEG, Retry).
NoPacketNumber == -1

\* PacketNumberSpace: the first number getNext() returns.
FirstPacketNumber == 0

\* Packet types that have a crypto context, hence a packet-number space.
Spaces == {"Initial", "Protected1RTT"}
PacketTypes == Spaces \cup {"VersionNegotiation"}

\* The packets the connection can hand to queuePackets: type, isAckOnly()
\* and size, the byte length of packet.toBuffer(connection).
PacketKinds ==
    {[type |-> "Initial", ackOnly |-> FALSE, size |-> DEFAULT_MSS],
     [type |-> "Initial", ackOnly |-> TRUE, size |-> 50],
     [type |-> "Protected1RTT", ackOnly |-> FALSE, size |-> 1000],
     [type |-> "Protected1RTT", ackOnly |-> TRUE, size |-> 50],
     [type |-> "VersionNegotiation", ackOnly |-> FALSE, size |-> 60],
     [type |-> "VersionNegotiation", ackOnly |-> TRUE, size |-> 60]}

VARIABLES
    packetsQueue,      \* CongestionControl.packetsQueue: packets waiting for the window
    bytesInFlight,     \* CongestionControl.bytesInFlight
    congestionWindow,  \* CongestionControl.congestionWindow
    endOfRecovery,     \* CongestionControl.endOfRecovery
    sshtresh,          \* CongestionControl.sshtresh
    txCurrent,         \* per packet-number space: the next number getNext() returns
    wire,              \* the packets given to socket.send, in order
    sentPackets,       \* LossDetection: indexes of wire neither acked nor lost yet
    nQueued,           \* number of packets handed to queuePackets so far
    ev                 \* the handler that ran last, with the values it started from

vars == <<packetsQueue, bytesInFlight, congestionWindow, endOfRecovery, sshtresh,
          txCurrent, wire, sentPackets, nQueued, ev>>

Max(a, b) == IF a >= b THEN a ELSE b

\* Bignum.multiply(0.5) on an integer window.
MultiplyByLossReduction(x) == x \div LOSS_REDUCTION_DIVISOR

\* The controller object with the collaborators sendPackets touches.
This ==
    [packetsQueue |-> packetsQueue, bytesInFlight |-> bytesInFlight,
     congestionWindow |-> congestionWindow, endOfRecovery |-> endOfRecovery,
     sshtresh |-> sshtresh, txCurrent |-> txCurrent, wire |-> wire,
     sentPackets |-> sentPackets]

\* Mutant of inRecovery: the end of the recovery period itself is outside it.
inRecoveryStrict(this, packetNumber) == packetNumber < this.endOfRecovery

\* Mutant of inRecovery: no packet number is inside a recovery period.
inRecoveryNever(this, packetNumber) == FALSE

\* inRecovery(packetNumber)
inRecovery(this, packetNumber) == packetNumber <= this.endOfRecovery

\* Mutant of onPacketSent: ACK-only packets are counted too.
onPacketSentCountsAckOnly(this, packetSent) ==
    this.bytesInFlight + packetSent.size

\* onPacketSent(packetSent): the new bytesInFlight
onPacketSent(this, packetSent) ==
    IF ~packetSent.ackOnly
    THEN this.bytesInFlight + packetSent.size
    ELSE this.bytesInFlight

\* Mutant of WindowOpen: a full window still lets one packet through.
WindowOpenWhenFull(this) == this.bytesInFlight <= this.congestionWindow

\* The condition of sendPackets' loop on the window.
WindowOpen(this) == this.bytesInFlight < this.congestionWindow

\* Mutant of SendOne: every numbered packet takes its number from the
\* Initial space.
SendOneFromInitialSpace(this) ==
    LET packet == Head(this.packetsQueue)
        ctx == packet.type \in Spaces
        pn == IF ctx THEN this.txCurrent["Initial"] ELSE NoPacketNumber
        sent == [id |-> packet.id, type |-> packet.type, ackOnly |-> packet.ackOnly,
                 size |-> packet.size, pn |-> pn,
                 gateBytesInFlight |-> this.bytesInFlight,
                 gateCongestionWindow |-> this.congestionWindow,
                 sentBytesInFlight |-> onPacketSent(this, packet)]
    IN  [this EXCEPT
            !.packetsQueue = Tail(@),
            !.txCurrent = IF ctx THEN [@ EXCEPT !["Initial"] = @ + 1] ELSE @,
            !.wire = Append(@, sent),
            !.sentPackets = IF ctx THEN @ \cup {Len(this.wire) + 1} ELSE @,
            !.bytesInFlight = sent.sentBytesInFlight]

\* One iteration of sendPackets' loop up to and including onPacketSent:
\* shift the queue, number the packet from its space, send it, count it.
SendOne(this) ==
    LET packet == Head(this.packetsQueue)
        ctx == packet.type \in Spaces
        pn == IF ctx THEN this.txCurrent[packet.type] ELSE NoPacketNumber
        sent == [id |-> packet.id, type |-> packet.type, ackOnly |-> packet.ackOnly,
                 size |-> packet.size, pn |-> pn,
                 gateBytesInFlight |-> this.bytesInFlight,
                 gateCongestionWindow |-> this.congestionWindow,
                 sentBytesInFlight |-> onPacketSent(this, packet)]
    IN  [this EXCEPT
            !.packetsQueue = Tail(@),
            !.txCurrent = IF ctx THEN [@ EXCEPT ![packet.type] = @ + 1] ELSE @,
            !.wire = Append(@, sent),
            !.sentPackets = IF ctx THEN @ \cup {Len(this.wire) + 1} ELSE @,
            !.bytesInFlight = sent.sentBytesInFlight]

RECURSIVE sendPackets(_, _)
RECURSIVE queuePackets(_, _, _)

\* sendPackets(); listener is what the PACKET_SENT listener hands to
\* queuePackets when the first packet of this call is emitted (<<>>: nothing).
sendPackets(this, listener) ==
    IF WindowOpen(this) /\ Len(this.packetsQueue) > 0
    THEN LET afterSent == SendOne(this)
             afterEmit == IF listener # <<>>
                          THEN queuePackets(afterSent, listener, <<>>)
                          ELSE afterSent
         IN  sendPackets(afterEmit, <<>>)
    ELSE this

\* Mutant of queuePackets: the new packets go in front of the queue.
queuePacketsInFront(this, packets, listener) ==
    sendPackets([this EXCEPT !.packetsQueue = packets \o @], listener)

\* queuePackets(packets)
queuePackets(this, packets, listener) ==
    sendPackets([this EXCEPT !.packetsQueue = @ \o packets], listener)

\* Mutant of SlowStart: the window grows by a full datagram per ack.
SlowStartByDatagram(window, packetByteSize) == window + DEFAULT_MSS

\* The window after an ack in slow start.
SlowStart(window, packetByteSize) == window + packetByteSize

\* Mutant of CongestionAvoidance: grows as in slow start.
CongestionAvoidanceByBytes(window, packetByteSize) == window + packetByteSize

\* The window after an ack in congestion avoidance (Bignum.divide is the
\* integer quotient).
CongestionAvoidance(window, packetByteSize) ==
    window + ((DEFAULT_MSS * packetByteSize) \div window)

\* Mutant of onPacketAcked: the recovery check returns before the acked
\* bytes are removed from bytesInFlight.
onPacketAckedRecoveryFirst(this, ackedPacket, listener) ==
    IF ackedPacket.ackOnly \/ inRecovery(this, ackedPacket.pn)
    THEN this
    ELSE LET packetByteSize == ackedPacket.size
             removed == [this EXCEPT !.bytesInFlight = @ - packetByteSize]
         IN  IF removed.congestionWindow < removed.sshtresh
             THEN sendPackets(
                    [removed EXCEPT !.congestionWindow =
                        SlowStart(@, packetByteSize)],
                    listener)
             ELSE sendPackets(
                    [removed EXCEPT !.congestionWindow =
                        CongestionAvoidance(@, packetByteSize)],
                    listener)

\* onPacketAcked(ackedPacket)
onPacketAcked(this, ackedPacket, listener) ==
    IF ackedPacket.ackOnly
    THEN this
    ELSE LET packetByteSize == ackedPacket.size
             removed == [this EXCEPT !.bytesInFlight = @ - packetByteSize]
         IN  IF inRecovery(removed, ackedPacket.pn)
             THEN removed
             ELSE IF removed.congestionWindow < removed.sshtresh
                  THEN sendPackets(
                         [removed EXCEPT !.congestionWindow =
                             SlowStart(@, packetByteSize)],
                         listener)
                  ELSE sendPackets(
                         [removed EXCEPT !.congestionWindow =
                             CongestionAvoidance(@, packetByteSize)],
                         listener)

\* The forEach of onPacketsLost: <<bytesInFlight, largestLost>> after it.
RECURSIVE LostLoop(_, _, _)
LostLoop(bif, largestLost, lostPackets) ==
    IF lostPackets = <<>>
    THEN <<bif, largestLost>>
    ELSE LET lostPacket == Head(lostPackets)
         IN  IF lostPacket.ackOnly
             THEN LostLoop(bif, largestLost, Tail(lostPackets))
             ELSE LostLoop(bif - lostPacket.size,
                           IF lostPacket.pn > largestLost THEN lostPacket.pn
                                                          ELSE largestLost,
                           Tail(lostPackets))

\* Mutant of NewLossEvent: the reduced window is not held at the minimum.
NewLossEventNoMinimum(this, largestLost) ==
    IF ~inRecovery(this, largestLost)
    THEN LET reduced == MultiplyByLossReduction(this.congestionWindow)
         IN  [this EXCEPT !.endOfRecovery = largestLost,
                          !.congestionWindow = reduced,
                          !.sshtresh = reduced]
    ELSE this

\* Mutant of NewLossEvent: the window is not multiplied by the reduction
\* factor.
NewLossEventNoReduction(this, largestLost) ==
    IF ~inRecovery(this, largestLost)
    THEN LET reduced == Max(this.congestionWindow, MINIMUM_WINDOW)
         IN  [this EXCEPT !.endOfRecovery = largestLost,
                          !.congestionWindow = reduced,
                          !.sshtresh = reduced]
    ELSE this

\* The recovery epoch part of onPacketsLost.
NewLossEvent(this, largestLost) ==
    IF ~inRecovery(this, largestLost)
    THEN LET reduced == Max(MultiplyByLossReduction(this.congestionWindow),
                            MINIMUM_WINDOW)
         IN  [this EXCEPT !.endOfRecovery = largestLost,
                          !.congestionWindow = reduced,
                          !.sshtresh = reduced]
    ELSE this

\* onPacketsLost(lostPackets)
onPacketsLost(this, lostPackets, listener) ==
    LET loop == LostLoop(this.bytesInFlight, 0, lostPackets)
        removed == [this EXCEPT !.bytesInFlight = loop[1]]
    IN  sendPackets(NewLossEvent(removed, loop[2]), listener)

\* Mutant of onRetransmissionTimeoutVerified: the timeout also forgets what
\* is in flight.
onRetransmissionTimeoutVerifiedClearsInFlight(this) ==
    [this EXCEPT !.congestionWindow = MINIMUM_WINDOW, !.bytesInFlight = 0]

\* onRetransmissionTimeoutVerified()
onRetransmissionTimeoutVerified(this) ==
    [this EXCEPT !.congestionWindow = MINIMUM_WINDOW]

(***************************************************************************)
(* The state machine.                                                      *)
(***************************************************************************)
\* What a handler started from, kept for the properties about one handler.
Event(op, packets) ==
    [op |-> op, packets |-> packets,
     bytesInFlight |-> bytesInFlight, congestionWindow |-> congestionWindow,
     endOfRecovery |-> endOfRecovery, sshtresh |-> sshtresh,
     wireLen |-> Len(wire)]

\* Mutant of Init: the controller starts at the minimum window.
InitAtMinimumWindow ==
    /\ congestionWindow = MINIMUM_WINDOW
    /\ bytesInFlight = 0
    /\ endOfRecovery = 0
    /\ sshtresh = Infinity
    /\ packetsQueue = <<>>
    /\ txCurrent = [s \in Spaces |-> FirstPacketNumber]
    /\ wire = <<>>
    /\ sentPackets = {}
    /\ nQueued = 0
    /\ ev = [op |-> "constructor", packets |-> <<>>,
             bytesInFlight |-> 0, congestionWindow |-> 0, endOfRecovery |-> 0,
             sshtresh |-> 0, wireLen |-> 0]

\* constructor
Init ==
    /\ congestionWindow = INITIAL_WINDOW
    /\ bytesInFlight = 0
    /\ endOfRecovery = 0
    /\ sshtresh = Infinity
    /\ packetsQueue = <<>>
    /\ txCurrent = [s \in Spaces |-> FirstPacketNumber]
    /\ wire = <<>>
    /\ sentPackets = {}
    /\ nQueued = 0
    /\ ev = [op |-> "constructor", packets |-> <<>>,
             bytesInFlight |-> 0, congestionWindow |-> 0, endOfRecovery |-> 0,
             sshtresh |-> 0, wireLen |-> 0]

\* The controller's fields and collaborators after a handler returned `that`.
Becomes(that) ==
    /\ packetsQueue' = that.packetsQueue
    /\ bytesInFlight' = that.bytesInFlight
    /\ congestionWindow' = that.congestionWindow
    /\ endOfRecovery' = that.endOfRecovery
    /\ sshtresh' = that.sshtresh
    /\ txCurrent' = that.txCurrent
    /\ wire' = that.wire
    /\ sentPackets' = that.sentPackets

\* Sequences of k packets numbered from `from` on.
Batches(k, from) ==
    {[i \in 1..k |-> [id |-> from + i, type |-> f[i].type,
                      ackOnly |-> f[i].ackOnly, size |-> f[i].size]] :
        f \in [1..k -> PacketKinds]}

\* What a PACKET_SENT listener may queue: nothing, or one packet.
Listeners(from) ==
    IF from < MaxPackets THEN {<<>>} \cup Batches(1, from) ELSE {<<>>}

\* The packets of `listener` that were really queued: the listener only runs
\* when the handler emitted PACKET_SENT.
Heard(that, listener) == IF Len(that.wire) > Len(wire) THEN Len(listener) ELSE 0

QueuePackets ==
    \E k \in 1..MaxBatch :
        /\ nQueued + k <= MaxPackets
        /\ \E packets \in Batches(k, nQueued) :
            \E listener \in Listeners(nQueued + k) :
                LET that == queuePackets(This, packets, listener)
                IN  /\ Becomes(that)
                    /\ nQueued' = nQueued + k + Heard(that, listener)
                    /\ ev' = Event("queuePackets", packets)

\* LossDetection emits PACKET_ACKED for a packet it still tracks.
AckablePackets == sentPackets

\* LossDetection (one instance per space) emits PACKETS_LOST for packets of
\* its space it still tracks.
LosablePackets(space) ==
    (SUBSET {i \in sentPackets : wire[i].type = space}) \ {{}}

OnPacketAcked ==
    \E i \in AckablePackets :
        \E listener \in Listeners(nQueued) :
            LET that == onPacketAcked([This EXCEPT !.sentPackets = @ \ {i}],
                                      wire[i], listener)
            IN  /\ Becomes(that)
                /\ nQueued' = nQueued + Heard(that, listener)
                /\ ev' = Event("onPacketAcked", <<wire[i]>>)

\* The packets of wire with the indexes in S, in the order they were sent.
RECURSIVE SeqOf(_, _)
SeqOf(S, i) ==
    IF i > Len(wire) THEN <<>>
    ELSE IF i \in S THEN <<wire[i]>> \o SeqOf(S, i + 1) ELSE SeqOf(S, i + 1)

OnPacketsLost ==
    \E space \in Spaces :
        \E lost \in LosablePackets(space) :
            \E listener \in Listeners(nQueued) :
                LET lostPackets == SeqOf(lost, 1)
                    that == onPacketsLost([This EXCEPT !.sentPackets = @ \ lost],
                                          lostPackets, listener)
                IN  /\ Becomes(that)
                    /\ nQueued' = nQueued + Heard(that, listener)
                    /\ ev' = Event("onPacketsLost", lostPackets)

OnRetransmissionTimeoutVerified ==
    /\ Becomes(onRetransmissionTimeoutVerified(This))
    /\ nQueued' = nQueued
    /\ ev' = Event("onRetransmissionTimeoutVerified", <<>>)

(***************************************************************************)
(* Part 2: FrameParser (utilities/parsers/frame.parser.ts) and             *)
(* PacketHandler (packet/packet.handler.ts).                               *)
(*                                                                         *)
(* A Buffer is a sequence of bytes; the byte at offset o is buffer[o + 1]. *)
(* A parse function returns a record tagged "frame" (with the frame and    *)
(* the offset behind it) or "throw" (with the error); parseFrame may also  *)
(* return "undefined".  A frame also records where in the buffer its parts  *)
(* were read (phraseStart, dataStart, blocksEnd).                          *)
(***************************************************************************)
\* Chunks a payload is put together from.
MaxChunks == 2

\* FrameType
PADDING == 0
RST_STREAM == 1
CONNECTION_CLOSE == 2
APPLICATION_CLOSE == 3
MAX_DATA == 4
MAX_STREAM_DATA == 5
MAX_STREAM_ID == 6
PING == 7
BLOCKED == 8
STREAM_BLOCKED == 9
STREAM_ID_BLOCKED == 10
NEW_CONNECTION_ID == 11
STOP_SENDING == 12
ACK == 13
PATH_CHALLENGE == 14
PATH_RESPONSE == 15
STREAM == 16
STREAM_MAX_NR == 23
CRYPTO == 24
ACK_ECN == 26
\* Constants.PATH_CHALLENGE_PAYLOAD_SIZE, Constants.PATH_RESPONSE_PAYLOAD_SIZE
PATH_CHALLENGE_PAYLOAD_SIZE == 8
PATH_RESPONSE_PAYLOAD_SIZE == 8
\* The size of a stateless reset token (Buffer.alloc(16)).
RESET_TOKEN_SIZE == 16

Throw(error) == [tag |-> "throw", error |-> error]
FrameOffset(frame, offset) == [tag |-> "frame", frame |-> frame, offset |-> offset]
Undefined == [tag |-> "undefined"]

byteLength(buffer) == Len(buffer)

\* buffer.readUInt8(offset), for an offset inside the buffer.
readUInt8(buffer, offset) == buffer[offset + 1]

\* buffer.readUInt16BE(offset), for offset + 2 inside the buffer.
readUInt16BE(buffer, offset) == buffer[offset + 1] * 256 + buffer[offset + 2]

\* Whether a read of n bytes at offset stays inside the buffer; a read that
\* does not throws a RangeError.
InRange(buffer, offset, n) == offset >= 0 /\ offset + n <= Len(buffer)

\* Buffer.alloc(n) followed by buffer.copy(data, 0, start, start + n): the
\* bytes of buffer from start on, as far as there are any, then zeros.
CopyOut(buffer, start, n) ==
    [i \in 1..n |-> IF start + i <= Len(buffer) THEN buffer[start + i] ELSE 0]

\* buffer.toString('utf8', start, end), as the bytes it decodes: end is cut
\* to the buffer's length, and nothing is decoded when end <= start.
toString(buffer, start, end) ==
    LET stop == IF end > Len(buffer) THEN Len(buffer) ELSE end
    IN  IF stop <= start THEN <<>>
        ELSE [i \in 1..(stop - start) |-> buffer[start + i]]

RECURSIVE BigEndian(_, _, _, _)
BigEndian(buffer, offset, n, acc) ==
    IF n = 0 THEN acc
    ELSE BigEndian(buffer, offset + 1, n - 1, acc * 256 + buffer[offset + 1])

\* VLIE.decode(buffer, offset): the two high bits of the first byte give the
\* length (1, 2, 4 or 8 bytes), the other bits start the big-endian value.
VLIEdecode(buffer, offset) ==
    IF offset >= Len(buffer)
    THEN Throw("FRAME_ENCODING_ERROR")
    ELSE LET first == buffer[offset + 1]
             n == 2 ^ (first \div 64)
         IN  IF offset + n > Len(buffer)
             THEN Throw("RangeError")
             ELSE [tag |-> "value",
                   value |-> BigEndian(buffer, offset + 1, n - 1, first % 64),
                   offset |-> offset + n]

\* k successive VLIE.decode calls, each at the offset the one before
\* returned: the values in order and the last offset, or the first throw.
RECURSIVE DecodeEach(_, _, _, _)
DecodeEach(buffer, offset, k, values) ==
    IF k = 0
    THEN [tag |-> "values", values |-> values, offset |-> offset]
    ELSE LET v == VLIEdecode(buffer, offset)
         IN  IF v.tag = "throw" THEN v
             ELSE DecodeEach(buffer, v.offset, k - 1, Append(values, v.value))

\* The loop of parsePadding: the first offset from `offset` on that is at
\* the end of the buffer or holds a non-zero byte.
RECURSIVE SkipZeros(_, _)
SkipZeros(buffer, offset) ==
    IF offset < byteLength(buffer) /\ readUInt8(buffer, offset) = 0
    THEN SkipZeros(buffer, offset + 1)
    ELSE offset

\* parsePadding(buffer, offset)
parsePadding(buffer, offset) ==
    LET startOffset == offset
        end == SkipZeros(buffer, offset)
        paddingSize == end - startOffset
    IN  FrameOffset([kind |-> "PADDING", paddingSize |-> paddingSize], end)

\* parseRstStream(buffer, offset)
parseRstStream(buffer, offset) ==
    LET streamID == VLIEdecode(buffer, offset)
    IN  IF streamID.tag = "throw" THEN streamID
        ELSE IF ~InRange(buffer, streamID.offset, 2) THEN Throw("RangeError")
        ELSE LET applicationErrorCode == readUInt16BE(buffer, streamID.offset)
                 finalOffset == VLIEdecode(buffer, streamID.offset + 2)
             IN  IF finalOffset.tag = "throw" THEN finalOffset
                 ELSE FrameOffset([kind |-> "RST_STREAM",
                                   streamID |-> streamID.value,
                                   applicationErrorCode |-> applicationErrorCode,
                                   finalOffset |-> finalOffset.value],
                                  finalOffset.offset)

\* parseClose(type, buffer, offset)
parseClose(type, buffer, offset) ==
    IF ~InRange(buffer, offset, 2) THEN Throw("RangeError")
    ELSE LET errorCode == readUInt16BE(buffer, offset)
             phraseLength == VLIEdecode(buffer, offset + 2)
         IN  IF phraseLength.tag = "throw" THEN phraseLength
             ELSE FrameOffset(
                    [kind |-> IF type = APPLICATION_CLOSE THEN "APPLICATION_CLOSE"
                                                          ELSE "CONNECTION_CLOSE",
                     errorCode |-> errorCode,
                     phrase |-> toString(buffer, phraseLength.offset,
                                         phraseLength.value),
                     phraseStart |-> phraseLength.offset,
                     phraseLength |-> phraseLength.value],
                    phraseLength.offset + phraseLength.value)

\* The parse functions that read k VLIE fields and nothing else:
\* parseMaxData, parseMaxStreamId, parseBlocked, parseStreamIdBlocked (one
\* field), parseMaxStreamData, parseStreamBlocked (two fields).
parseFields(kind, k, buffer, offset) ==
    LET fields == DecodeEach(buffer, offset, k, <<>>)
    IN  IF fields.tag = "throw" THEN fields
        ELSE FrameOffset([kind |-> kind, fields |-> fields.values], fields.offset)

\* parsePing(buffer, offset)
parsePing(buffer, offset) == FrameOffset([kind |-> "PING"], offset)

\* parseNewConnectionId(buffer, offset)
parseNewConnectionId(buffer, offset) ==
    LET sequence == VLIEdecode(buffer, offset)
    IN  IF sequence.tag = "throw" THEN sequence
        ELSE IF ~InRange(buffer, sequence.offset, 1) THEN Throw("RangeError")
        ELSE LET connectionIDLength == readUInt8(buffer, sequence.offset)
                 idOffset == sequence.offset + 1
                 tokenOffset == idOffset + connectionIDLength
             IN  IF tokenOffset > byteLength(buffer) THEN Throw("RangeError")
                 ELSE FrameOffset(
                        [kind |-> "NEW_CONNECTION_ID",
                         sequence |-> sequence.value,
                         connectionID |-> CopyOut(buffer, idOffset, connectionIDLength),
                         statelessResetToken |->
                             CopyOut(buffer, tokenOffset, RESET_TOKEN_SIZE)],
                        tokenOffset + RESET_TOKEN_SIZE)

\* parseStopSending(buffer, offset)
parseStopSending(buffer, offset) ==
    LET streamID == VLIEdecode(buffer, offset)
    IN  IF streamID.tag = "throw" THEN streamID
        ELSE IF ~InRange(buffer, streamID.offset, 2) THEN Throw("RangeError")
        ELSE FrameOffset([kind |-> "STOP_SENDING",
                          streamID |-> streamID.value,
                          appErrorCode |-> readUInt16BE(buffer, streamID.offset)],
                         streamID.offset + 2)

\* The ack block loop of parseAck: count times a gap and a block.
RECURSIVE AckBlocks(_, _, _, _)
AckBlocks(buffer, offset, count, ackBlocks) ==
    IF count = 0
    THEN [tag |-> "values", values |-> ackBlocks, offset |-> offset]
    ELSE LET pair == DecodeEach(buffer, offset, 2, <<>>)
         IN  IF pair.tag = "throw" THEN pair
             ELSE AckBlocks(buffer, pair.offset, count - 1,
                            Append(ackBlocks, pair.values))

\* Mutant of ParseECN: the counts are never read.
ParseECNNever(containsECNinfo, buffer, offset) ==
    [tag |-> "values", values |-> <<>>, offset |-> offset]

\* The last part of parseAck: the ECN counts behind the ack blocks.
ParseECN(containsECNinfo, buffer, offset) ==
    IF containsECNinfo /\ offset # Len(buffer)
    THEN DecodeEach(buffer, offset, 3, <<>>)
    ELSE [tag |-> "values", values |-> <<>>, offset |-> offset]

\* parseAck(containsECNinfo, buffer, offset)
parseAck(containsECNinfo, buffer, offset) ==
    LET head == DecodeEach(buffer, offset, 4, <<>>)
    IN  IF head.tag = "throw" THEN head
        ELSE LET blocks == AckBlocks(buffer, head.offset, head.values[3], <<>>)
             IN  IF blocks.tag = "throw" THEN blocks
                 ELSE LET ecn == ParseECN(containsECNinfo, buffer, blocks.offset)
                      IN  IF ecn.tag = "throw" THEN ecn
                          ELSE FrameOffset(
                                 [kind |-> IF containsECNinfo THEN "ACK_ECN" ELSE "ACK",
                                  largestAcknowledged |-> head.values[1],
                                  ackDelay |-> head.values[2],
                                  ackBlockCount |-> head.values[3],
                                  firstAckBlock |-> head.values[4],
                                  ackBlocks |-> blocks.values,
                                  blocksEnd |-> blocks.offset,
                                  ecnCounts |-> ecn.values],
                                 ecn.offset)

\* parsePathChallenge(buffer, offset) and parsePathResponse(buffer, offset)
parsePath(kind, size, buffer, offset) ==
    FrameOffset([kind |-> kind, data |-> CopyOut(buffer, offset, size)],
                offset + size)

\* parseCrypto(buffer, offset)
parseCrypto(buffer, offset) ==
    LET fields == DecodeEach(buffer, offset, 2, <<>>)
    IN  IF fields.tag = "throw" THEN fields
        ELSE LET length == fields.values[2]
             IN  FrameOffset([kind |-> "CRYPTO",
                              cryptooffset |-> fields.values[1],
                              data |-> CopyOut(buffer, fields.offset, length)],
                             fields.offset + length)

\* Mutant of parseStream: the LEN and OFF bits are read the other way round.
parseStreamSwappedFlags(type, buffer, offset) ==
    LET fin == (type % 2) = 1
        len == ((type \div 4) % 2) = 1
        off == ((type \div 2) % 2) = 1
        streamID == VLIEdecode(buffer, offset)
    IN  IF streamID.tag = "throw" THEN streamID
        ELSE LET vlieOffset == DecodeEach(buffer, streamID.offset,
                                          IF off THEN 1 ELSE 0, <<>>)
             IN  IF vlieOffset.tag = "throw" THEN vlieOffset
                 ELSE LET dataOffset == IF off THEN vlieOffset.values[1] ELSE 0
                          vlieLength == DecodeEach(buffer, vlieOffset.offset,
                                                   IF len THEN 1 ELSE 0, <<>>)
                      IN  IF vlieLength.tag = "throw" THEN vlieLength
                          ELSE LET dataLength ==
                                       IF len THEN vlieLength.values[1]
                                       ELSE byteLength(buffer) - vlieOffset.offset
                               IN  FrameOffset(
                                     [kind |-> "STREAM", type |-> type,
                                      streamID |-> streamID.value,
                                      data |-> CopyOut(buffer, vlieLength.offset,
                                                       dataLength),
                                      dataStart |-> vlieLength.offset,
                                      fin |-> fin,
                                      dataOffset |-> dataOffset,
                                      length |-> dataLength],
                                     vlieLength.offset + dataLength)

\* parseStream(type, buffer, offset)
parseStream(type, buffer, offset) ==
    LET fin == (type % 2) = 1
        len == ((type \div 2) % 2) = 1
        off == ((type \div 4) % 2) = 1
        streamID == VLIEdecode(buffer, offset)
    IN  IF streamID.tag = "throw" THEN streamID
        ELSE LET vlieOffset == DecodeEach(buffer, streamID.offset,
                                          IF off THEN 1 ELSE 0, <<>>)
             IN  IF vlieOffset.tag = "throw" THEN vlieOffset
                 ELSE LET dataOffset == IF off THEN vlieOffset.values[1] ELSE 0
                          vlieLength == DecodeEach(buffer, vlieOffset.offset,
                                                   IF len THEN 1 ELSE 0, <<>>)
                      IN  IF vlieLength.tag = "throw" THEN vlieLength
                          ELSE LET dataLength ==
                                       IF len THEN vlieLength.values[1]
                                       ELSE byteLength(buffer) - vlieOffset.offset
                               IN  FrameOffset(
                                     [kind |-> "STREAM", type |-> type,
                                      streamID |-> streamID.value,
                                      data |-> CopyOut(buffer, vlieLength.offset,
                                                       dataLength),
                                      dataStart |-> vlieLength.offset,
                                      fin |-> fin,
                                      dataOffset |-> dataOffset,
                                      length |-> dataLength],
                                     vlieLength.offset + dataLength)

\* parseFrame(buffer, offset)
parseFrame(buffer, offset) ==
    IF byteLength(buffer) <= offset
    THEN Undefined
    ELSE LET type == readUInt8(buffer, offset)
             next == offset + 1
         IN  CASE type = PADDING -> parsePadding(buffer, next)
               [] type = RST_STREAM -> parseRstStream(buffer, next)
               [] type = CONNECTION_CLOSE -> parseClose(CONNECTION_CLOSE, buffer, next)
               [] type = APPLICATION_CLOSE -> parseClose(APPLICATION_CLOSE, buffer, next)
               [] type = MAX_DATA -> parseFields("MAX_DATA", 1, buffer, next)
               [] type = MAX_STREAM_DATA -> parseFields("MAX_STREAM_DATA", 2, buffer, next)
               [] type = MAX_STREAM_ID -> parseFields("MAX_STREAM_ID", 1, buffer, next)
               [] type = PING -> parsePing(buffer, next)
               [] type = BLOCKED -> parseFields("BLOCKED", 1, buffer, next)
               [] type = STREAM_BLOCKED -> parseFields("STREAM_BLOCKED", 2, buffer, next)
               [] type = STREAM_ID_BLOCKED -> parseFields("STREAM_ID_BLOCKED", 1, buffer, next)
               [] type = NEW_CONNECTION_ID -> parseNewConnectionId(buffer, next)
               [] type = STOP_SENDING -> parseStopSending(buffer, next)
               [] type = PATH_CHALLENGE ->
                    parsePath("PATH_CHALLENGE", PATH_CHALLENGE_PAYLOAD_SIZE, buffer, next)
               [] type = PATH_RESPONSE ->
                    parsePath("PATH_RESPONSE", PATH_RESPONSE_PAYLOAD_SIZE, buffer, next)
               [] type = CRYPTO -> parseCrypto(buffer, next)
               [] type = ACK -> parseAck(FALSE, buffer, next)
               [] type = ACK_ECN -> parseAck(TRUE, buffer, next)
               [] type >= STREAM /\ type <= STREAM_MAX_NR -> parseStream(type, buffer, next)
               [] OTHER -> Undefined

\* The loop of parse: the frames from offset on, each with the offset of its
\* type byte, until parseFrame returns undefined or throws.
RECURSIVE ParseLoop(_, _, _)
ParseLoop(msg, offset, frames) ==
    LET frameOffset == parseFrame(msg, offset)
    IN  CASE frameOffset.tag = "undefined" ->
                [tag |-> "frames", frames |-> frames, offset |-> offset]
          [] frameOffset.tag = "throw" ->
                [tag |-> "throw", error |-> frameOffset.error, frames |-> frames,
                 offset |-> offset]
          [] OTHER ->
                ParseLoop(msg, frameOffset.offset,
                          Append(frames, [frame |-> frameOffset.frame,
                                          at |-> offset,
                                          offset |-> frameOffset.offset]))

\* Mutant of parse: the frames are collected in front of the list.
RECURSIVE ParseLoopReversed(_, _, _)
ParseLoopReversed(msg, offset, frames) ==
    LET frameOffset == parseFrame(msg, offset)
    IN  CASE frameOffset.tag = "undefined" ->
                [tag |-> "frames", frames |-> frames, offset |-> offset]
          [] frameOffset.tag = "throw" ->
                [tag |-> "throw", error |-> frameOffset.error, frames |-> frames,
                 offset |-> offset]
          [] OTHER ->
                ParseLoopReversed(msg, frameOffset.offset,
                          <<[frame |-> frameOffset.frame, at |-> offset,
                             offset |-> frameOffset.offset]>> \o frames)

parseReversed(msg, offset) == ParseLoopReversed(msg, offset, <<>>)

\* FrameParser.parse(msg, offset)
parse(msg, offset) == ParseLoop(msg, offset, <<>>)

(***************************************************************************)
(* The packets whose payloads are parsed and handled.                      *)
(***************************************************************************)
\* The byte strings a decrypted payload is put together from: whole frames,
\* frames cut short, frames that announce more than they carry, and bytes
\* that are no frame type.
Chunks ==
    { <<0>>,                         \* a 0x00 byte
      <<0, 0>>,                      \* two 0x00 bytes
      <<7>>,                         \* PING
      <<7, 0>>,                      \* PING and a 0x00 byte
      <<31>>,                        \* 0x1f, no frame type
      <<2, 0, 7, 0>>,                \* CONNECTION_CLOSE, error 7, no phrase
      <<2, 0, 7, 1, 65>>,            \* CONNECTION_CLOSE, error 7, phrase "A"
      <<3, 0, 7, 2, 65, 66>>,        \* APPLICATION_CLOSE, error 7, phrase "AB"
      <<13, 5, 0, 0, 2>>,            \* ACK, largest 5, no further blocks
      <<26, 5, 0, 0, 2>>,            \* ACK_ECN, largest 5, no further blocks
      <<26, 5, 0, 1, 2, 1, 1>>,      \* ACK_ECN, one further block
      <<26, 5, 0, 0, 2, 1, 2, 3>>,   \* ACK_ECN with the counts 1, 2, 3
      <<16, 4, 65>>,                 \* STREAM, stream 4, data "A" to the end
      <<18, 4, 1, 65>>,              \* STREAM LEN, 1 byte of data
      <<18, 4, 3, 65>>,              \* STREAM LEN, 3 bytes announced
      <<20, 4, 8, 65>>,              \* STREAM OFF, offset 8, data to the end
      <<23, 4, 8, 2, 65, 66>>,       \* STREAM FIN LEN OFF, offset 8, 2 bytes
      <<24, 0, 1, 65>>,              \* CRYPTO, offset 0, 1 byte
      <<4, 64>> }                    \* MAX_DATA with half a two-byte VLIE

RECURSIVE Concat(_)
Concat(chunks) ==
    IF chunks = <<>> THEN <<>> ELSE Head(chunks) \o Concat(Tail(chunks))

Payloads == { Concat(chunks) : chunks \in UNION { [1..k -> Chunks] : k \in 0..MaxChunks } }

\* The packet types that carry frames (packet.parser.ts parses the payload
\* of each of them with FrameParser.parse).
FramePacketTypes == {"Initial", "Handshake", "Protected0RTT", "Protected1RTT"}

VARIABLES
    payload,       \* the decrypted payload of the packet
    packetType,    \* the type of the packet
    step,          \* "received", "parsed", "handled" or "error"
    parsed,        \* what FrameParser.parse returned or threw
    handled        \* the frames handed to FrameHandler.handle, in call order

frameVars == <<payload, packetType, step, parsed, handled>>

\* PacketHandler.handleFrames: forEach calls FrameHandler.handle with one
\* frame after the other; a call that throws (the throwAt-th, none when
\* throwAt = 0) ends the loop.
RECURSIVE handleFrames(_, _)
handleFrames(frames, throwAt) ==
    IF frames = <<>> THEN <<>>
    ELSE <<Head(frames).frame>>
         \o (IF throwAt = 1 THEN <<>> ELSE handleFrames(Tail(frames), throwAt - 1))

\* PacketHandler.handle(connection, packet)
handle(type, frames, throwAt) ==
    IF type \in {"Initial", "Handshake", "Protected1RTT"}
    THEN handleFrames(frames, throwAt)
    ELSE <<>>

FrameInit ==
    /\ payload \in Payloads
    /\ packetType \in FramePacketTypes
    /\ step = "received"
    /\ parsed = Undefined
    /\ handled = <<>>

\* The state of this part while another part of the program is looked at.
FrameIdle ==
    /\ payload = <<>>
    /\ packetType = "Initial"
    /\ step = "idle"
    /\ parsed = Undefined
    /\ handled = <<>>

\* PacketParser.parse: the payload goes through FrameParser.parse(data, 0).
ParsePayload ==
    /\ step = "received"
    /\ parsed' = parse(payload, 0)
    /\ step' = IF parsed'.tag = "throw" THEN "error" ELSE "parsed"
    /\ UNCHANGED <<payload, packetType, handled>>

\* PacketHandler.handle on the parsed packet.
HandlePacket ==
    /\ step = "parsed"
    /\ \E throwAt \in 0..Len(parsed.frames) :
        /\ handled' = handle(packetType, parsed.frames, throwAt)
        /\ step' = IF throwAt > 0 /\ Len(handled') > 0 THEN "error" ELSE "handled"
    /\ UNCHANGED <<payload, packetType, parsed>>

(***************************************************************************)
(* Part 3: Server (quicker/server.ts).                                     *)
(*                                                                         *)
(* A datagram is the list of packets HeaderParser.parse finds in it.  What *)
(* the header handler, the packet parser and the packet handler do with a  *)
(* packet is an input: nothing, or the error one of them throws.           *)
(***************************************************************************)
\* Packets coalesced in one datagram.
MaxCoalesced == 2

ConnectionIDs == {1, 2}

\* The packets of a datagram: type, destination connection ID and the error
\* thrown while the packet is processed ("none" when there is none).
\* VERSION_NEGOTIATION_ERROR comes from HeaderHandler.handle on an Initial,
\* IGNORE_PACKET_ERROR from PacketParser.parse, PROTOCOL_VIOLATION (any
\* other error) from PacketHandler.handle.
HeaderOffset(type, connectionID, error) ==
    [type |-> type, connectionID |-> connectionID, error |-> error]

HeaderOffsets ==
    { HeaderOffset("Initial", 1, "none"),
      HeaderOffset("Initial", 1, "VERSION_NEGOTIATION_ERROR"),
      HeaderOffset("Protected1RTT", 1, "IGNORE_PACKET_ERROR"),
      HeaderOffset("Protected1RTT", 1, "PROTOCOL_VIOLATION"),
      HeaderOffset("Initial", 2, "none"),
      HeaderOffset("Protected1RTT", 2, "none") }

\* What HeaderParser.parse makes of a datagram: its packets, in the order
\* they lie in the datagram.
Datagrams == UNION { [1..n -> HeaderOffsets] : n \in 1..MaxCoalesced }

VARIABLES
    connectionManager,     \* the connection of each connection ID, if any; a
                           \* connection's sent is what it sent in the last handler
    headerOffsets,         \* the packets of the last datagram
    trace,                 \* the steps of the last handler, in order
    snapshots              \* for each packet of the last datagram, the
                           \* connections as the packet found them

serverVars == <<connectionManager, headerOffsets, trace, snapshots>>

\* No connection under this connection ID.
NoConnection == [state |-> "none", idleAlarm |-> FALSE, highestReceived |-> -1,
                 sent |-> <<>>, closed |-> FALSE]

\* new Connection(...), as ConnectionManager.getConnection creates it.
NewConnection == [state |-> "open", idleAlarm |-> FALSE, highestReceived |-> -1,
                  sent |-> <<>>, closed |-> FALSE]

\* The server while a datagram is processed: the connections, the steps
\* taken so far, and the connections as each packet found them.
Server(connections, steps) ==
    [connections |-> connections, steps |-> steps, turns |-> <<>>]

Step(server, number, what) ==
    [server EXCEPT !.steps = Append(@, [packet |-> number, step |-> what])]

\* connection.sendPacket(packet)
sendPacket(server, connectionID, packet) ==
    [server EXCEPT !.connections[connectionID].sent = Append(@, packet)]

\* Endpoint.handleError(connection, err): the close packet goes out and the
\* connection is closing.
handleError(server, connectionID) ==
    LET closing == [server EXCEPT !.connections[connectionID].state = "closing"]
    IN  sendPacket(closing, connectionID, "CONNECTION_CLOSE")

\* getPacketNumberSpace().setHighestReceivedNumber(new PacketNumber(number))
\* on the connection's Initial space.
setHighestReceivedNumber(server, connectionID, number) ==
    [server EXCEPT !.connections[connectionID].highestReceived = number]

\* Mutant of CatchVersionNegotiation: the error goes on to handleError.
CatchVersionNegotiationAsFatal(server, connectionID, number) ==
    Step(handleError(server, connectionID), number, "handleError")

\* The catch block of onMessage for VERSION_NEGOTIATION_ERROR.
CatchVersionNegotiation(server, connectionID, number) ==
    LET reset == Step(server, number, "resetConnectionState")
        zero == setHighestReceivedNumber(reset, connectionID, 0)
    IN  Step(sendPacket(zero, connectionID, "VersionNegotiation"),
             number, "versionNegotiation")

\* Mutant of CatchIgnore: the ignored packet is answered with a close packet.
CatchIgnoreAnswers(server, connectionID, number) ==
    Step(sendPacket(server, connectionID, "CONNECTION_CLOSE"), number, "ignored")

\* The catch block of onMessage for IGNORE_PACKET_ERROR.
CatchIgnore(server, connectionID, number) == Step(server, number, "ignored")

\* Mutant of Catch: no case for a connection that is undefined.
CatchWithoutUndefined(server, connectionID, defined, number, error) ==
    CASE error = "VERSION_NEGOTIATION_ERROR" ->
            CatchVersionNegotiation(server, connectionID, number)
      [] error = "IGNORE_PACKET_ERROR" -> CatchIgnore(server, connectionID, number)
      [] OTHER -> Step(handleError(server, connectionID), number, "handleError")

\* The catch block of onMessage; defined says whether getConnection had
\* returned a connection when the error was thrown.
Catch(server, connectionID, defined, number, error) ==
    CASE ~defined -> Step(server, number, "dropped")
      [] error = "VERSION_NEGOTIATION_ERROR" ->
            CatchVersionNegotiation(server, connectionID, number)
      [] error = "IGNORE_PACKET_ERROR" -> CatchIgnore(server, connectionID, number)
      [] OTHER -> Step(handleError(server, connectionID), number, "handleError")

\* The try block of onMessage for the number-th packet of the datagram, and
\* the catch block when something throws.
Try(server, headerOffset, number) ==
    LET connectionID == headerOffset.connectionID
        known == server.connections[connectionID].state # "none"
    IN  IF ~known /\ headerOffset.type # "Initial"
        THEN \* getConnection throws, connection is undefined
             Catch(Step(server, number, "getConnection"), connectionID, FALSE,
                   number, "IGNORE_PACKET_ERROR")
        ELSE
        LET found == Step(IF known THEN server
                          ELSE [server EXCEPT
                                  !.connections[connectionID] = NewConnection],
                          number, "getConnection")
        IN  IF found.connections[connectionID].state = "closing"
            THEN \* checkConnectionState repeats the close packet and throws
                 Catch(sendPacket(Step(found, number, "checkConnectionState"),
                                  connectionID, "CONNECTION_CLOSE"),
                       connectionID, TRUE, number, "IGNORE_PACKET_ERROR")
            ELSE
            LET checked == Step(found, number, "checkConnectionState")
                reset == Step([checked EXCEPT
                                 !.connections[connectionID].idleAlarm = FALSE],
                              number, "resetIdleAlarm")
                header == Step(reset, number, "headerHandler.handle")
                parsedPacket == Step(header, number, "packetParser.parse")
                handledPacket == Step(parsedPacket, number, "packetHandler.handle")
            IN  CASE headerOffset.error = "VERSION_NEGOTIATION_ERROR" ->
                        Catch(header, connectionID, TRUE, number, headerOffset.error)
                  [] headerOffset.error = "IGNORE_PACKET_ERROR" ->
                        Catch(parsedPacket, connectionID, TRUE, number,
                              headerOffset.error)
                  [] headerOffset.error = "PROTOCOL_VIOLATION" ->
                        Catch(handledPacket, connectionID, TRUE, number,
                              headerOffset.error)
                  [] OTHER ->
                        Step([handledPacket EXCEPT
                                !.connections[connectionID].idleAlarm = TRUE],
                             number, "startIdleAlarm")

\* The body of headerOffsets.forEach in onMessage, for the number-th packet
\* of the datagram; the connections as the packet found them are kept.
HandleHeaderOffset(server, headerOffset, number) ==
    LET done == Try(server, headerOffset, number)
    IN  [done EXCEPT !.turns =
            Append(@, server.connections)]

\* Mutant of ForEach: the packets are taken last to first.
RECURSIVE ForEachBackwards(_, _, _)
ForEachBackwards(server, offsets, number) ==
    IF number > Len(offsets) THEN server
    ELSE ForEachBackwards(
            HandleHeaderOffset(server, offsets[Len(offsets) + 1 - number],
                               Len(offsets) + 1 - number),
            offsets, number + 1)

\* Mutant of ForEach: the packets behind one whose processing failed are
\* left alone.
RECURSIVE ForEachUntilError(_, _, _)
ForEachUntilError(server, offsets, number) ==
    IF number > Len(offsets) THEN server
    ELSE LET done == HandleHeaderOffset(server, offsets[number], number)
         IN  IF done.steps[Len(done.steps)].step = "startIdleAlarm"
             THEN ForEachUntilError(done, offsets, number + 1)
             ELSE done

\* headerOffsets.forEach(...): the packets from the number-th on, one after
\* the other; whatever happens to a packet, the callback returns and the
\* next packet follows.
RECURSIVE ForEach(_, _, _)
ForEach(server, offsets, number) ==
    IF number > Len(offsets) THEN server
    ELSE ForEach(HandleHeaderOffset(server, offsets[number], number),
                 offsets, number + 1)

\* The connections at the start of a handler: nothing sent in it yet.
NothingSent(connections) ==
    [connections EXCEPT ![1].sent = <<>>, ![2].sent = <<>>]

\* Server.listen: createConnectionManager, no connection yet.
ServerInit ==
    /\ connectionManager = [c \in ConnectionIDs |-> NoConnection]
    /\ headerOffsets = <<>>
    /\ trace = <<>>
    /\ snapshots = <<>>

\* Server.onMessage on a datagram whose headers do not parse.
OnMessageHeaderError ==
    /\ connectionManager' = NothingSent(connectionManager)
    /\ headerOffsets' = <<>>
    /\ trace' = <<[packet |-> 0, step |-> "headerParser.parse throws"]>>
    /\ snapshots' = <<>>

\* Server.onMessage on a datagram whose headers parse.
OnMessage ==
    \E offsets \in Datagrams :
        LET done == ForEach(Server(NothingSent(connectionManager), <<>>), offsets, 1)
        IN  /\ connectionManager' = done.connections
            /\ trace' = done.steps
            /\ snapshots' = done.turns
            /\ headerOffsets' = offsets

\* Mutant of OnConnectionClose: the application hears CONNECTION_CLOSE and
\* the connection stays in the connection manager.
OnConnectionCloseKeepsEntry ==
    /\ \E connectionID \in ConnectionIDs :
        /\ connectionManager[connectionID].state # "none"
        /\ ~connectionManager[connectionID].closed
        /\ connectionManager' =
                [NothingSent(connectionManager) EXCEPT ![connectionID].closed = TRUE]
        /\ trace' = <<[packet |-> 0, step |-> "emit CONNECTION_CLOSE"]>>
    /\ headerOffsets' = <<>>
    /\ snapshots' = <<>>

\* The handler setupConnectionEvents sets for ConnectionEvent.CLOSE: the
\* connection leaves the connection manager, then the application hears
\* CONNECTION_CLOSE.
OnConnectionClose ==
    /\ \E connectionID \in ConnectionIDs :
        /\ connectionManager[connectionID].state # "none"
        /\ connectionManager' =
                [NothingSent(connectionManager) EXCEPT ![connectionID] = NoConnection]
        /\ trace' = <<[packet |-> 0, step |-> "deleteConnection"],
                      [packet |-> 0, step |-> "emit CONNECTION_CLOSE"]>>
    /\ headerOffsets' = <<>>
    /\ snapshots' = <<>>

\* The state of this part while another part of the program is looked at.
ServerIdle == ServerInit

(***************************************************************************)
(* Part 4: TransportParameters (src/src/crypto/transport.parameters.ts).   *)
(* An object of transport parameters is built, changed with                *)
(* setTransportParameter, written to an extension buffer and read back;    *)
(* fromExtensionBuffer is also run on buffers as a peer may send them.     *)
(***************************************************************************)
\* At most this many calls of setTransportParameter on one object.
MaxSets == 2

\* At most this many pieces in an extension buffer a peer sends.
MaxEntries == 3

\* enum TransportParameterType
INITIAL_MAX_STREAM_DATA_BIDI_LOCAL == 0
INITIAL_MAX_DATA == 1
INITIAL_MAX_BIDI_STREAMS == 2
IDLE_TIMEOUT == 3
PREFERRED_ADDRESS == 4
MAX_PACKET_SIZE == 5
STATELESS_RESET_TOKEN == 6
ACK_DELAY_EXPONENT == 7
INITIAL_MAX_UNI_STREAMS == 8
DISABLE_MIGRATION == 9
INITIAL_MAX_STREAM_DATA_BIDI_REMOTE == 10
INITIAL_MAX_STREAM_DATA_UNI == 11
MAX_ACK_DELAY == 12
ORIGINAL_CONNECTION_ID == 13

\* The numeric keys of the enum object.
TransportParameterType ==
    { INITIAL_MAX_STREAM_DATA_BIDI_LOCAL, INITIAL_MAX_DATA, INITIAL_MAX_BIDI_STREAMS,
      IDLE_TIMEOUT, PREFERRED_ADDRESS, MAX_PACKET_SIZE, STATELESS_RESET_TOKEN,
      ACK_DELAY_EXPONENT, INITIAL_MAX_UNI_STREAMS, DISABLE_MIGRATION,
      INITIAL_MAX_STREAM_DATA_BIDI_REMOTE, INITIAL_MAX_STREAM_DATA_UNI,
      MAX_ACK_DELAY, ORIGINAL_CONNECTION_ID }

\* The constants file, as far as the transport parameters use it.
Constants ==
    [MAX_PACKET_SIZE |-> 1252, DEFAULT_ACK_EXPONENT |-> 3,
     DEFAULT_MAX_STREAM_DATA |-> 66051, DEFAULT_MAX_DATA |-> 66051,
     DEFAULT_IDLE_TIMEOUT |-> 258,
     DEFAULT_MAX_STREAM_CLIENT_BIDI |-> 12, DEFAULT_MAX_STREAM_CLIENT_UNI |-> 3,
     DEFAULT_MAX_STREAM_SERVER_BIDI |-> 1, DEFAULT_MAX_STREAM_SERVER_UNI |-> 7]

\* The values a parameter holds: a number, a Buffer, a boolean, or undefined.
Number(n) == [tag |-> "number", number |-> n]
BufferOf(bytes) == [tag |-> "Buffer", bytes |-> bytes]
Boolean(b) == [tag |-> "boolean", boolean |-> b]

\* new TransportParameters(isServer, maxStreamData, maxData, idleTimeout, version)
TransportParameters(isServer, maxStreamData, maxData, idleTimeout, version) ==
    [tag |-> "TransportParameters",
     isServer |-> isServer,
     maxStreamDataBidiLocal |-> maxStreamData,
     maxStreamDataBidiRemote |-> maxStreamData,
     maxStreamDataUni |-> maxStreamData,
     maxData |-> maxData,
     maxStreamIdBidi |-> Undefined,
     maxStreamIdUni |-> Undefined,
     idleTimeout |-> idleTimeout,
     maxPacketSize |-> Undefined,
     statelessResetToken |-> Undefined,
     ackDelayExponent |-> Undefined,
     disableMigration |-> Undefined,
     version |-> version]

\* setTransportParameter(type, value): a switch without a default case.
setTransportParameter(this, type, value) ==
    CASE type = INITIAL_MAX_STREAM_DATA_BIDI_LOCAL ->
            [this EXCEPT !.maxStreamDataBidiLocal = value]
      [] type = INITIAL_MAX_STREAM_DATA_BIDI_REMOTE ->
            [this EXCEPT !.maxStreamDataBidiRemote = value]
      [] type = INITIAL_MAX_STREAM_DATA_UNI ->
            [this EXCEPT !.maxStreamDataUni = value]
      [] type = INITIAL_MAX_DATA -> [this EXCEPT !.maxData = value]
      [] type = INITIAL_MAX_BIDI_STREAMS -> [this EXCEPT !.maxStreamIdBidi = value]
      [] type = INITIAL_MAX_UNI_STREAMS -> [this EXCEPT !.maxStreamIdUni = value]
      [] type = IDLE_TIMEOUT -> [this EXCEPT !.idleTimeout = value]
      [] type = MAX_PACKET_SIZE -> [this EXCEPT !.maxPacketSize = value]
      [] type = STATELESS_RESET_TOKEN -> [this EXCEPT !.statelessResetToken = value]
      [] type = ACK_DELAY_EXPONENT -> [this EXCEPT !.ackDelayExponent = value]
      [] type = DISABLE_MIGRATION -> [this EXCEPT !.disableMigration = value]
      [] OTHER -> this

\* getTransportParameter(type): undefined when no case matches.
getTransportParameter(this, type) ==
    CASE type = INITIAL_MAX_STREAM_DATA_BIDI_LOCAL -> this.maxStreamDataBidiLocal
      [] type = INITIAL_MAX_STREAM_DATA_BIDI_REMOTE -> this.maxStreamDataBidiRemote
      [] type = INITIAL_MAX_STREAM_DATA_UNI -> this.maxStreamDataUni
      [] type = INITIAL_MAX_DATA -> this.maxData
      [] type = INITIAL_MAX_BIDI_STREAMS -> this.maxStreamIdBidi
      [] type = INITIAL_MAX_UNI_STREAMS -> this.maxStreamIdUni
      [] type = IDLE_TIMEOUT -> this.idleTimeout
      [] type = MAX_PACKET_SIZE ->
            IF this.maxPacketSize = Undefined THEN Number(Constants.MAX_PACKET_SIZE)
            ELSE this.maxPacketSize
      [] type = STATELESS_RESET_TOKEN -> this.statelessResetToken
      [] type = ACK_DELAY_EXPONENT ->
            IF this.ackDelayExponent = Undefined
            THEN Number(Constants.DEFAULT_ACK_EXPONENT)
            ELSE this.ackDelayExponent
      [] type = DISABLE_MIGRATION -> this.disableMigration
      [] OTHER -> Undefined

getTransportParameterTypeByteSize(type) ==
    CASE type = INITIAL_MAX_STREAM_DATA_BIDI_LOCAL -> 4
      [] type = INITIAL_MAX_STREAM_DATA_BIDI_REMOTE -> 4
      [] type = INITIAL_MAX_STREAM_DATA_UNI -> 4
      [] type = INITIAL_MAX_DATA -> 4
      [] type = INITIAL_MAX_BIDI_STREAMS -> 2
      [] type = IDLE_TIMEOUT -> 2
      [] type = PREFERRED_ADDRESS -> 4
      [] type = MAX_PACKET_SIZE -> 2
      [] type = STATELESS_RESET_TOKEN -> 16
      [] type = ACK_DELAY_EXPONENT -> 1
      [] type = INITIAL_MAX_UNI_STREAMS -> 2
      [] type = DISABLE_MIGRATION -> 0
      [] OTHER -> 0

\* if (x): what JavaScript takes for true.
Truthy(value) ==
    CASE value.tag = "boolean" -> value.boolean
      [] value.tag = "number" -> value.number # 0
      [] value.tag = "Buffer" -> TRUE
      [] OTHER -> FALSE

\* Mutant of getBufferSize: the zero-length DISABLE_MIGRATION entry is not
\* counted.
getBufferSizeWithoutMigration(this) ==
    2 + 2 + getTransportParameterTypeByteSize(INITIAL_MAX_STREAM_DATA_BIDI_LOCAL)
    + 2 + 2 + getTransportParameterTypeByteSize(INITIAL_MAX_STREAM_DATA_BIDI_REMOTE)
    + 2 + 2 + getTransportParameterTypeByteSize(INITIAL_MAX_STREAM_DATA_UNI)
    + 2 + 2 + getTransportParameterTypeByteSize(INITIAL_MAX_DATA)
    + 2 + 2 + getTransportParameterTypeByteSize(IDLE_TIMEOUT)
    + (IF this.maxStreamIdBidi # Undefined
       THEN 2 + 2 + getTransportParameterTypeByteSize(INITIAL_MAX_BIDI_STREAMS) ELSE 0)
    + (IF this.maxStreamIdUni # Undefined
       THEN 2 + 2 + getTransportParameterTypeByteSize(INITIAL_MAX_UNI_STREAMS) ELSE 0)
    + (IF this.maxPacketSize # Undefined
       THEN 2 + 2 + getTransportParameterTypeByteSize(MAX_PACKET_SIZE) ELSE 0)
    + (IF this.ackDelayExponent # Undefined
       THEN 2 + 2 + getTransportParameterTypeByteSize(ACK_DELAY_EXPONENT) ELSE 0)
    + (IF this.isServer
       THEN 2 + 2 + getTransportParameterTypeByteSize(STATELESS_RESET_TOKEN) ELSE 0)

\* getBufferSize()
getBufferSize(this) ==
    2 + 2 + getTransportParameterTypeByteSize(INITIAL_MAX_STREAM_DATA_BIDI_LOCAL)
    + 2 + 2 + getTransportParameterTypeByteSize(INITIAL_MAX_STREAM_DATA_BIDI_REMOTE)
    + 2 + 2 + getTransportParameterTypeByteSize(INITIAL_MAX_STREAM_DATA_UNI)
    + 2 + 2 + getTransportParameterTypeByteSize(INITIAL_MAX_DATA)
    + 2 + 2 + getTransportParameterTypeByteSize(IDLE_TIMEOUT)
    + (IF this.maxStreamIdBidi # Undefined
       THEN 2 + 2 + getTransportParameterTypeByteSize(INITIAL_MAX_BIDI_STREAMS) ELSE 0)
    + (IF this.maxStreamIdUni # Undefined
       THEN 2 + 2 + getTransportParameterTypeByteSize(INITIAL_MAX_UNI_STREAMS) ELSE 0)
    + (IF this.maxPacketSize # Undefined
       THEN 2 + 2 + getTransportParameterTypeByteSize(MAX_PACKET_SIZE) ELSE 0)
    + (IF this.ackDelayExponent # Undefined
       THEN 2 + 2 + getTransportParameterTypeByteSize(ACK_DELAY_EXPONENT) ELSE 0)
    + (IF this.isServer
       THEN 2 + 2 + getTransportParameterTypeByteSize(STATELESS_RESET_TOKEN) ELSE 0)
    + (IF Truthy(this.disableMigration) THEN 2 + 2 ELSE 0)

\* interface BufferOffset
BufferOffset(buffer, offset) ==
    [tag |-> "BufferOffset", buffer |-> buffer, offset |-> offset]

\* Buffer.alloc(size)
alloc(size) == [i \in 1..size |-> 0]

\* The size bytes of value, most significant first.
RECURSIVE BytesBE(_, _)
BytesBE(value, size) ==
    IF size = 0 THEN <<>>
    ELSE Append(BytesBE(value \div 256, size - 1), value % 256)

\* source.copy(buffer, offset): the bytes that fit are copied, no more.
copy(source, buffer, offset) ==
    [i \in 1..Len(buffer) |->
        IF i > offset /\ i <= offset + Len(source) THEN source[i - offset]
        ELSE buffer[i]]

\* Whether value can be written in size bytes; the numbers of the model stay
\* below 2^31 and so fit in 4 bytes or more.
Fits(value, size) == size >= 4 \/ value < 256 ^ size

\* buffer.writeUIntBE(value, offset, size); buffer.writeUInt16BE is the case
\* of size 2. A value too large for size bytes, or bytes outside the buffer,
\* are a RangeError.
writeUIntBE(buffer, value, offset, size) ==
    IF ~InRange(buffer, offset, size) \/ ~Fits(value, size) THEN Throw("RangeError")
    ELSE BufferOffset(copy(BytesBE(value, size), buffer, offset), offset + size)

writeTypeAndLength(type, buffer, offset, length) ==
    CHOOSE after \in
        { IF typed.tag = "throw" THEN typed
          ELSE writeUIntBE(typed.buffer, length, typed.offset, 2) :
            typed \in { writeUIntBE(buffer, type, offset, 2) } } : TRUE

\* Mutant of WriteValue: type and length are written, the bytes of the
\* value are left as Buffer.alloc made them.
WriteNoValue(type, bufferOffset, value) ==
    LET size == getTransportParameterTypeByteSize(type)
    IN  BufferOffset(bufferOffset.buffer, bufferOffset.offset + size)

\* The second half of writeTransportParameter: the value is written after
\* type and length, and the offset moves on by the size of the type. Every
\* value written is a Buffer or a number.
WriteValue(type, bufferOffset, value) ==
    LET size == getTransportParameterTypeByteSize(type)
    IN  CASE value.tag = "Buffer" ->
                BufferOffset(copy(value.bytes, bufferOffset.buffer, bufferOffset.offset),
                             bufferOffset.offset + size)
          [] value.tag = "number" ->
                LET written == writeUIntBE(bufferOffset.buffer, value.number,
                                           bufferOffset.offset, size)
                IN  IF written.tag = "throw" THEN written
                    ELSE BufferOffset(written.buffer, bufferOffset.offset + size)
          [] OTHER -> Throw("TypeError")

\* writeTransportParameter(type, bufferOffset, value); an exception thrown
\* by an earlier write stays. The arguments are passed by value: before is
\* what bufferOffset holds, head what writeTypeAndLength returns.
writeTransportParameter(type, bufferOffset, value) ==
    CHOOSE after \in
        { IF before.tag = "throw" THEN before
          ELSE CHOOSE written \in
                { IF head.tag = "throw" THEN head ELSE WriteValue(type, head, value) :
                    head \in { writeTypeAndLength(
                                  type, before.buffer, before.offset,
                                  getTransportParameterTypeByteSize(type)) } } : TRUE :
            before \in {bufferOffset} } : TRUE

writeZeroLengthTransportParameter(type, bufferOffset) ==
    CHOOSE after \in
        { IF before.tag = "throw" THEN before
          ELSE writeTypeAndLength(type, before.buffer, before.offset, 0) :
            before \in {bufferOffset} } : TRUE

\* The writes of getTransportParametersBuffer, from bufferOffset = start on:
\* bufferOffset after the last of them, or the exception thrown.
WriteParameters(this, start) ==
    LET local == writeTransportParameter(INITIAL_MAX_STREAM_DATA_BIDI_LOCAL, start,
                                         this.maxStreamDataBidiLocal)
        remote == writeTransportParameter(INITIAL_MAX_STREAM_DATA_BIDI_REMOTE, local,
                                          this.maxStreamDataBidiRemote)
        uni == writeTransportParameter(INITIAL_MAX_STREAM_DATA_UNI, remote,
                                       this.maxStreamDataUni)
        data == writeTransportParameter(INITIAL_MAX_DATA, uni, this.maxData)
        idle == writeTransportParameter(IDLE_TIMEOUT, data, this.idleTimeout)
        token == IF this.isServer
                 THEN writeTransportParameter(STATELESS_RESET_TOKEN, idle,
                                              this.statelessResetToken)
                 ELSE idle
        bidi == IF this.maxStreamIdBidi # Undefined
                THEN writeTransportParameter(INITIAL_MAX_BIDI_STREAMS, token,
                                             this.maxStreamIdBidi)
                ELSE token
        unis == IF this.maxStreamIdUni # Undefined
                THEN writeTransportParameter(INITIAL_MAX_UNI_STREAMS, bidi,
                                             this.maxStreamIdUni)
                ELSE bidi
        size == IF this.maxPacketSize # Undefined
                THEN writeTransportParameter(MAX_PACKET_SIZE, unis, this.maxPacketSize)
                ELSE unis
        exponent == IF this.ackDelayExponent # Undefined
                    THEN writeTransportParameter(ACK_DELAY_EXPONENT, size,
                                                 this.ackDelayExponent)
                    ELSE size
        migration == IF Truthy(this.disableMigration)
                     THEN writeZeroLengthTransportParameter(DISABLE_MIGRATION, exponent)
                     ELSE exponent
    IN  migration

\* getTransportParametersBuffer(): the buffer, or the exception thrown.
getTransportParametersBuffer(this) ==
    CHOOSE returned \in
        { IF last.tag = "throw" THEN last ELSE BufferOf(last.buffer) :
            last \in { WriteParameters(this,
                                       BufferOffset(alloc(getBufferSize(this)), 0)) } } :
        TRUE

\* The array values of fromExtensionBuffer: the entries set so far.
Values(entries) == [tag |-> "values", entries |-> entries]

\* Mutant of In: nothing is ever found in values.
InNever(type, values) == FALSE

\* type in values
In(type, values) == type \in DOMAIN values

\* The while loop of fromExtensionBuffer from offset on: the values read, or
\* the exception thrown. A read outside the buffer is a RangeError; the
\* value is read before the type is looked up in values.
RECURSIVE ReadValues(_, _, _)
ReadValues(buffer, offset, values) ==
    IF ~(offset < byteLength(buffer)) THEN Values(values)
    ELSE IF ~InRange(buffer, offset, 2) \/ ~InRange(buffer, offset + 2, 2)
    THEN Throw("RangeError")
    ELSE
    LET type == readUInt16BE(buffer, offset)
        len == readUInt16BE(buffer, offset + 2)
        start == offset + 4
    IN  IF len > 0 /\ len <= 4 /\ ~InRange(buffer, start, len)
        THEN Throw("RangeError")
        ELSE
        LET value == IF len > 4 THEN BufferOf(CopyOut(buffer, start, len))
                     ELSE IF len > 0 THEN Number(BigEndian(buffer, start, len, 0))
                     ELSE Boolean(TRUE)
        IN  IF In(type, values) THEN Throw("TRANSPORT_PARAMETER_ERROR")
            ELSE ReadValues(buffer, start + len, (type :> value) @@ values)

\* Mutant of SetValues: a key outside the enum is taken for INITIAL_MAX_DATA.
RECURSIVE SetValuesUnknownAsMaxData(_, _, _)
SetValuesUnknownAsMaxData(transportParameters, values, keys) ==
    IF keys = {} THEN transportParameters
    ELSE LET key == CHOOSE k \in keys : \A other \in keys : k <= other
         IN  SetValuesUnknownAsMaxData(
                IF key \in TransportParameterType
                THEN setTransportParameter(transportParameters, key, values[key])
                ELSE setTransportParameter(transportParameters, INITIAL_MAX_DATA,
                                           values[key]),
                values, keys \ {key})

\* for (let key in values): the keys of an array come in ascending order;
\* a key that is not in the enum is passed over.
RECURSIVE SetValues(_, _, _)
SetValues(transportParameters, values, keys) ==
    IF keys = {} THEN transportParameters
    ELSE LET key == CHOOSE k \in keys : \A other \in keys : k <= other
         IN  SetValues(
                IF key \in TransportParameterType
                THEN setTransportParameter(transportParameters, key, values[key])
                ELSE transportParameters,
                values, keys \ {key})

\* TransportParameters.fromExtensionBuffer(isServer, buffer, version): the
\* object, or the exception thrown.
fromExtensionBuffer(isServer, buffer, version) ==
    LET read == ReadValues(buffer, 0, <<>>)
    IN  IF read.tag = "throw" THEN read
        ELSE SetValues(TransportParameters(isServer, Number(0), Number(0),
                                           Number(0), version),
                       read.entries, DOMAIN read.entries)

\* TransportParameters.getDefaultTransportParameters(isServer, version);
\* Constants.DISABLE_MIGRATION and the random token of a server are given.
getDefaultTransportParameters(isServer, version, disableMigration, token) ==
    LET constructed == TransportParameters(isServer,
                                           Number(Constants.DEFAULT_MAX_STREAM_DATA),
                                           Number(Constants.DEFAULT_MAX_DATA),
                                           Number(Constants.DEFAULT_IDLE_TIMEOUT),
                                           version)
        exponent == setTransportParameter(constructed, ACK_DELAY_EXPONENT,
                                          Number(Constants.DEFAULT_ACK_EXPONENT))
        migration == setTransportParameter(exponent, DISABLE_MIGRATION,
                                           Boolean(disableMigration))
    IN  IF isServer
        THEN setTransportParameter(
                setTransportParameter(
                    setTransportParameter(migration, INITIAL_MAX_BIDI_STREAMS,
                        Number(Constants.DEFAULT_MAX_STREAM_CLIENT_BIDI)),
                    INITIAL_MAX_UNI_STREAMS,
                    Number(Constants.DEFAULT_MAX_STREAM_CLIENT_UNI)),
                STATELESS_RESET_TOKEN, BufferOf(token))
        ELSE setTransportParameter(
                setTransportParameter(migration, INITIAL_MAX_BIDI_STREAMS,
                    Number(Constants.DEFAULT_MAX_STREAM_SERVER_BIDI)),
                INITIAL_MAX_UNI_STREAMS,
                Number(Constants.DEFAULT_MAX_STREAM_SERVER_UNI))

\* The version the endpoints speak.
Version == "version"

\* Stateless reset tokens of 16 bytes.
Tokens == { [i \in 1..RESET_TOKEN_SIZE |-> i], [i \in 1..RESET_TOKEN_SIZE |-> 2 * i] }

\* The calls of setTransportParameter that are made: the number parameters
\* get numbers (258 is too large for one byte), the token a Buffer,
\* DISABLE_MIGRATION a boolean.
SetInputs ==
    ({ INITIAL_MAX_STREAM_DATA_BIDI_LOCAL, INITIAL_MAX_DATA, INITIAL_MAX_BIDI_STREAMS,
       IDLE_TIMEOUT, MAX_PACKET_SIZE, ACK_DELAY_EXPONENT, INITIAL_MAX_UNI_STREAMS,
       INITIAL_MAX_STREAM_DATA_BIDI_REMOTE, INITIAL_MAX_STREAM_DATA_UNI }
        \X { Number(5), Number(258) })
    \cup ({ PREFERRED_ADDRESS, MAX_ACK_DELAY, ORIGINAL_CONNECTION_ID } \X { Number(5) })
    \cup ({ STATELESS_RESET_TOKEN } \X { BufferOf(token) : token \in Tokens })
    \cup ({ DISABLE_MIGRATION } \X { Boolean(TRUE), Boolean(FALSE) })

\* An entry of an extension buffer: type(2) | length(2) | value.
Entry(type, value) ==
    <<type \div 256, type % 256, Len(value) \div 256, Len(value) % 256>> \o value

\* The pieces extension buffers of a peer are made of: entries of known
\* types, entries of types outside the enum (32, 65280), an entry cut short
\* in its value and one cut short in its header.
Pieces ==
    { Entry(INITIAL_MAX_DATA, <<0, 1, 2, 3>>),
      Entry(INITIAL_MAX_DATA, <<0, 0, 0, 7>>),
      Entry(IDLE_TIMEOUT, <<1, 2>>),
      Entry(DISABLE_MIGRATION, <<>>),
      Entry(STATELESS_RESET_TOKEN, [i \in 1..RESET_TOKEN_SIZE |-> i]),
      Entry(ORIGINAL_CONNECTION_ID, <<9>>),
      Entry(32, <<5>>),
      Entry(65280, <<1, 2, 3, 4, 5>>),
      <<0, 1, 0, 4, 0>>,
      <<0>> }

ExtensionBuffers ==
    { Concat(pieces) : pieces \in UNION { [1..k -> Pieces] : k \in 0..MaxEntries } }

VARIABLES
    transportParameters,   \* the TransportParameters object of the endpoint
    sets,                  \* how many times setTransportParameter was called
    lastSet,               \* the last call of setTransportParameter and the
                           \* object as it was before the call
    extension,             \* the extension buffer: written by the endpoint
                           \* or sent by a peer
    received               \* what fromExtensionBuffer made of the buffer

transportVars == <<transportParameters, sets, lastSet, extension, received>>

\* The endpoint has its default transport parameters.
TransportInit ==
    /\ transportParameters \in
            { getDefaultTransportParameters(isServer, Version, disableMigration, token) :
                isServer \in BOOLEAN, disableMigration \in BOOLEAN, token \in Tokens }
    /\ sets = 0
    /\ lastSet = Undefined
    /\ extension = Undefined
    /\ received = Undefined

\* The extension buffer of a peer is there to be read.
ExtensionInit ==
    /\ transportParameters =
            getDefaultTransportParameters(FALSE, Version, FALSE, <<>>)
    /\ sets = 0
    /\ lastSet = Undefined
    /\ extension \in { BufferOf(buffer) : buffer \in ExtensionBuffers }
    /\ received = Undefined

\* setTransportParameter(type, value) when a value is given, no call
\* otherwise.
SetGiven(this, type, value) ==
    IF value = Undefined THEN this ELSE setTransportParameter(this, type, value)

\* The objects new TransportParameters and calls of setTransportParameter
\* make: each optional parameter set or left undefined.
Constructed ==
    { SetGiven(SetGiven(SetGiven(SetGiven(SetGiven(SetGiven(
        TransportParameters(isServer, Number(Constants.DEFAULT_MAX_STREAM_DATA),
                            Number(Constants.DEFAULT_MAX_DATA),
                            Number(Constants.DEFAULT_IDLE_TIMEOUT), Version),
        INITIAL_MAX_BIDI_STREAMS, bidi),
        INITIAL_MAX_UNI_STREAMS, uni),
        MAX_PACKET_SIZE, size),
        ACK_DELAY_EXPONENT, exponent),
        DISABLE_MIGRATION, migration),
        STATELESS_RESET_TOKEN, token) :
        isServer \in BOOLEAN,
        bidi \in {Undefined, Number(5)},
        uni \in {Undefined, Number(5)},
        size \in {Undefined, Number(Constants.MAX_PACKET_SIZE)},
        exponent \in {Undefined, Number(Constants.DEFAULT_ACK_EXPONENT), Number(258)},
        migration \in {Undefined, Boolean(TRUE), Boolean(FALSE)},
        token \in {Undefined} \cup { BufferOf(t) : t \in Tokens } }

\* An endpoint holds one of the constructed objects.
ConstructedInit ==
    /\ transportParameters \in Constructed
    /\ sets = 0
    /\ lastSet = Undefined
    /\ extension = Undefined
    /\ received = Undefined

\* The state of this part while another part of the program is looked at.
TransportIdle ==
    /\ transportParameters =
            getDefaultTransportParameters(FALSE, Version, FALSE, <<>>)
    /\ sets = 0
    /\ lastSet = Undefined
    /\ extension = Undefined
    /\ received = Undefined

\* transportParameters.setTransportParameter(type, value)
SetTransportParameter ==
    /\ sets < MaxSets
    /\ extension = Undefined
    /\ \E input \in SetInputs :
        /\ transportParameters' =
                setTransportParameter(transportParameters, input[1], input[2])
        /\ lastSet' = [tag |-> "set", type |-> input[1], value |-> input[2],
                       before |-> transportParameters]
    /\ sets' = sets + 1
    /\ UNCHANGED <<extension, received>>

\* toBuffer and toExtensionDataBuffer call getTransportParametersBuffer.
GetTransportParametersBuffer ==
    /\ extension = Undefined
    /\ extension' = getTransportParametersBuffer(transportParameters)
    /\ UNCHANGED <<transportParameters, sets, lastSet, received>>

\* TransportParameters.fromExtensionBuffer on the extension buffer.
FromExtensionBuffer ==
    /\ extension.tag = "Buffer"
    /\ received = Undefined
    /\ \E isServer \in BOOLEAN :
        received' = fromExtensionBuffer(isServer, extension.bytes, Version)
    /\ UNCHANGED <<transportParameters, sets, lastSet, extension>>

(***************************************************************************)
(* The specifications: one part of the program moves, the others rest.     *)
(***************************************************************************)
allVars == <<vars, frameVars, serverVars, transportVars>>

CongestionInit == Init /\ FrameIdle /\ ServerIdle /\ TransportIdle

Next ==
    \/ QueuePackets /\ UNCHANGED <<frameVars, serverVars, transportVars>>
    \/ OnPacketAcked /\ UNCHANGED <<frameVars, serverVars, transportVars>>
    \/ OnPacketsLost /\ UNCHANGED <<frameVars, serverVars, transportVars>>
    \/ OnRetransmissionTimeoutVerified
            /\ UNCHANGED <<frameVars, serverVars, transportVars>>

Spec == CongestionInit /\ [][Next]_allVars

FramePacketInit == FrameInit /\ Init /\ ServerIdle /\ TransportIdle

FrameNext ==
    \/ ParsePayload /\ UNCHANGED <<vars, serverVars, transportVars>>
    \/ HandlePacket /\ UNCHANGED <<vars, serverVars, transportVars>>

FrameSpec == FramePacketInit /\ [][FrameNext]_allVars

ServerListenInit == ServerInit /\ Init /\ FrameIdle /\ TransportIdle

ServerNext ==
    \/ OnMessageHeaderError /\ UNCHANGED <<vars, frameVars, transportVars>>
    \/ OnMessage /\ UNCHANGED <<vars, frameVars, transportVars>>
    \/ OnConnectionClose /\ UNCHANGED <<vars, frameVars, transportVars>>

ServerSpec == ServerListenInit /\ [][ServerNext]_allVars

TransportParametersInit == TransportInit /\ Init /\ FrameIdle /\ ServerIdle

TransportNext ==
    \/ SetTransportParameter /\ UNCHANGED <<vars, frameVars, serverVars>>
    \/ GetTransportParametersBuffer /\ UNCHANGED <<vars, frameVars, serverVars>>
    \/ FromExtensionBuffer /\ UNCHANGED <<vars, frameVars, serverVars>>

TransportSpec == TransportParametersInit /\ [][TransportNext]_allVars

ExtensionBufferInit == ExtensionInit /\ Init /\ FrameIdle /\ ServerIdle

ExtensionNext ==
    \/ FromExtensionBuffer /\ UNCHANGED <<vars, frameVars, serverVars>>

ExtensionSpec == ExtensionBufferInit /\ [][ExtensionNext]_allVars

SerializationInit == ConstructedInit /\ Init /\ FrameIdle /\ ServerIdle

SerializationNext ==
    \/ GetTransportParametersBuffer /\ UNCHANGED <<vars, frameVars, serverVars>>
    \/ FromExtensionBuffer /\ UNCHANGED <<vars, frameVars, serverVars>>

SerializationSpec == SerializationInit /\ [][SerializationNext]_allVars


(***************************************************************************)
(* Properties of CongestionControl.                                        *)
(***************************************************************************)
\* The packets the last handler put on the wire.
SentByHandler == {i \in 1..Len(wire) : i > ev.wireLen}

\* bytesInFlight when the last handler reached its sendPackets call (or
\* returned without one): the value the first release of the call saw.
BytesInFlightBeforeSending ==
    IF SentByHandler # {} THEN wire[ev.wireLen + 1].gateBytesInFlight
    ELSE bytesInFlight

\* Sum of the sizes of the packets of a sequence that are not ACK-only.
RECURSIVE CountedBytes(_)
CountedBytes(packets) ==
    IF packets = <<>> THEN 0
    ELSE (IF Head(packets).ackOnly THEN 0 ELSE Head(packets).size)
         + CountedBytes(Tail(packets))

\* Largest packet number among the packets of a sequence that are not
\* ACK-only; NoPacketNumber when there is none.
RECURSIVE LargestCounted(_)
LargestCounted(packets) ==
    IF packets = <<>> THEN NoPacketNumber
    ELSE LET rest == LargestCounted(Tail(packets))
         IN  IF ~Head(packets).ackOnly /\ Head(packets).pn > rest
             THEN Head(packets).pn ELSE rest

\* The packets sent, not ACK-only, and neither acked nor declared lost.
Unsettled ==
    {i \in 1..Len(wire) :
        /\ ~wire[i].ackOnly
        /\ (wire[i].pn # NoPacketNumber => i \in sentPackets)}

RECURSIVE SizeSum(_)
SizeSum(S) ==
    IF S = {} THEN 0
    ELSE LET i == CHOOSE x \in S : TRUE IN wire[i].size + SizeSum(S \ {i})

\* The packet of the last onPacketAcked.
AckedPacket == ev.packets[1]

\* The last handler acked a packet that counts and is outside recovery.
AckedOutsideRecovery ==
    /\ ev.op = "onPacketAcked"
    /\ ~AckedPacket.ackOnly
    /\ AckedPacket.pn > ev.endOfRecovery

\* C1: every packet sendPackets released was released while bytesInFlight
\* was below congestionWindow: no packet is dequeued and sent with
\* bytesInFlight >= congestionWindow.
C1_ReleasedOnlyBelowWindow ==
    \A i \in 1..Len(wire) :
        wire[i].gateBytesInFlight < wire[i].gateCongestionWindow

\* Packets were sent, the window then filled up and holds a packet back.
C1_Witness ==
    /\ Len(wire) > 0
    /\ Len(packetsQueue) > 0
    /\ bytesInFlight >= congestionWindow

\* C2: ACK-only packets bypass the window: when queuePackets returns, every
\* ACK-only packet it was handed is on the wire, whatever bytesInFlight is.
C2_AckOnlyBypassesWindow ==
    ev.op = "queuePackets" =>
        \A k \in 1..Len(ev.packets) :
            ev.packets[k].ackOnly =>
                \E i \in 1..Len(wire) : wire[i].id = ev.packets[k].id

\* C3: ACK-only packets never count in flight: sending one leaves
\* bytesInFlight as it was, acking one leaves bytesInFlight and
\* congestionWindow as they were, and the ACK-only packets of a loss batch
\* take nothing from bytesInFlight.
C3_AckOnlyNotInFlight ==
    /\ \A i \in 1..Len(wire) :
        wire[i].ackOnly => wire[i].sentBytesInFlight = wire[i].gateBytesInFlight
    /\ (ev.op = "onPacketAcked" /\ AckedPacket.ackOnly) =>
        /\ bytesInFlight = ev.bytesInFlight
        /\ congestionWindow = ev.congestionWindow
    /\ ev.op = "onPacketsLost" =>
        BytesInFlightBeforeSending = ev.bytesInFlight - CountedBytes(ev.packets)

\* A loss batch with an ACK-only packet in it, sent while data was in flight.
C3_Witness ==
    /\ ev.op = "onPacketsLost"
    /\ \E k \in 1..Len(ev.packets) : ev.packets[k].ackOnly
    /\ ev.bytesInFlight > 0
    /\ \E i \in 1..Len(wire) : wire[i].ackOnly /\ wire[i].gateBytesInFlight > 0

\* C4: in-flight ledger: after every ack or loss event bytesInFlight is the
\* sum of the sizes of the packets sent, not ACK-only, and neither acked nor
\* declared lost; it is never negative.
C4_InFlightLedger ==
    ev.op \in {"onPacketAcked", "onPacketsLost"} =>
        /\ bytesInFlight = SizeSum(Unsettled)
        /\ bytesInFlight >= 0

\* An ack in recovery that leaves other packets in flight.
C4_Witness ==
    /\ ev.op = "onPacketAcked"
    /\ ~AckedPacket.ackOnly
    /\ AckedPacket.pn <= ev.endOfRecovery
    /\ bytesInFlight > 0
    /\ \E i \in 1..Len(wire) : wire[i].ackOnly

\* C5: a loss whose largest lost packet number (ACK-only packets apart) is
\* above endOfRecovery sets congestionWindow to max(congestionWindow * 0.5,
\* 2 * 1460), sshtresh to the new window and endOfRecovery to that number;
\* a loss whose largest lost number is not above endOfRecovery leaves all
\* three as they were.
C5_NewLossEvent ==
    (ev.op = "onPacketsLost" /\ CountedBytes(ev.packets) > 0) =>
        LET largestLost == LargestCounted(ev.packets)
        IN  IF largestLost > ev.endOfRecovery
            THEN /\ congestionWindow =
                        Max(ev.congestionWindow \div 2, 2 * 1460)
                 /\ sshtresh = congestionWindow
                 /\ endOfRecovery = largestLost
            ELSE /\ congestionWindow = ev.congestionWindow
                 /\ sshtresh = ev.sshtresh
                 /\ endOfRecovery = ev.endOfRecovery

\* A new loss event that halves the window to a value above the minimum.
C5_Witness ==
    /\ ev.op = "onPacketsLost"
    /\ endOfRecovery > ev.endOfRecovery
    /\ congestionWindow > MINIMUM_WINDOW
    /\ congestionWindow < ev.congestionWindow

\* C6 as stated: after every onPacketsLost the window is at most
\* max(window before * 0.5, minimum window) and not above the window before.
C6_EveryLossReduces ==
    ev.op = "onPacketsLost" =>
        /\ 2 * congestionWindow <= Max(ev.congestionWindow, 2 * MINIMUM_WINDOW)
        /\ congestionWindow <= ev.congestionWindow

\* C6 as amended: after an onPacketsLost that starts a recovery epoch the
\* window is at most max(window before * 0.5, minimum window), and after
\* every onPacketsLost it is not above the window before.
C6_NewLossReduces ==
    ev.op = "onPacketsLost" =>
        /\ (CountedBytes(ev.packets) > 0
            /\ LargestCounted(ev.packets) > ev.endOfRecovery) =>
                2 * congestionWindow <= Max(ev.congestionWindow, 2 * MINIMUM_WINDOW)
        /\ congestionWindow <= ev.congestionWindow

\* A loss inside the recovery period: the window stays above half.
C6_Witness ==
    /\ ev.op = "onPacketsLost"
    /\ CountedBytes(ev.packets) > 0
    /\ ev.endOfRecovery > 0
    /\ LargestCounted(ev.packets) <= ev.endOfRecovery
    /\ congestionWindow = ev.congestionWindow

\* C7: the congestion window is never below the minimum window, 2 * 1460.
C7_WindowAtLeastMinimum == congestionWindow >= 2 * 1460

\* A new loss event whose halved window would be below the minimum.
C7_Witness ==
    /\ ev.op = "onPacketsLost"
    /\ endOfRecovery > ev.endOfRecovery
    /\ ev.congestionWindow \div 2 < MINIMUM_WINDOW

\* C8: a newly constructed controller has congestionWindow = 10 * 1460,
\* bytesInFlight = 0, endOfRecovery = 0, sshtresh = infinity and an empty
\* queue: it starts in slow start.
C8_Constructed ==
    ev.op = "constructor" =>
        /\ congestionWindow = 10 * 1460
        /\ bytesInFlight = 0
        /\ endOfRecovery = 0
        /\ sshtresh = Infinity
        /\ packetsQueue = <<>>
        /\ congestionWindow < sshtresh

\* The state the constructor leaves.
C8_Witness == ev.op = "constructor" /\ wire = <<>>

\* C9: slow start: an ack of a packet that counts, numbered above
\* endOfRecovery, while congestionWindow < sshtresh, grows the window by
\* exactly the size of the acked packet.
C9_SlowStart ==
    (AckedOutsideRecovery /\ ev.congestionWindow < ev.sshtresh) =>
        congestionWindow = ev.congestionWindow + AckedPacket.size

\* Slow start below a finite threshold (after a loss and a timeout).
C9_Witness ==
    /\ AckedOutsideRecovery
    /\ ev.congestionWindow < ev.sshtresh
    /\ ev.sshtresh < Infinity

\* C10: congestion avoidance: an ack of a packet that counts, numbered above
\* endOfRecovery, while congestionWindow >= sshtresh, grows the window by
\* 1460 * acked bytes / window before (integer quotient), which is at most
\* the acked bytes; and no ack shrinks the window.
C10_CongestionAvoidance ==
    /\ (AckedOutsideRecovery /\ ev.congestionWindow >= ev.sshtresh) =>
        /\ congestionWindow =
            ev.congestionWindow + ((1460 * AckedPacket.size) \div ev.congestionWindow)
        /\ congestionWindow - ev.congestionWindow <= AckedPacket.size
    /\ ev.op = "onPacketAcked" => congestionWindow >= ev.congestionWindow

\* An ack in congestion avoidance that grows the window.
C10_Witness ==
    /\ AckedOutsideRecovery
    /\ ev.congestionWindow >= ev.sshtresh
    /\ congestionWindow > ev.congestionWindow

\* C11: a verified retransmission timeout sets congestionWindow to the
\* minimum window, 2 * 1460, and leaves bytesInFlight, sshtresh,
\* endOfRecovery and the packet queue as they were.
C11_TimeoutSetsMinimumWindow ==
    [][ev'.op = "onRetransmissionTimeoutVerified" =>
        /\ congestionWindow' = 2 * 1460
        /\ bytesInFlight' = bytesInFlight
        /\ sshtresh' = sshtresh
        /\ endOfRecovery' = endOfRecovery
        /\ packetsQueue' = packetsQueue]_vars

\* A timeout with a finite threshold, bytes in flight and a packet waiting.
C11_Witness ==
    /\ ev.op = "onRetransmissionTimeoutVerified"
    /\ congestionWindow = MINIMUM_WINDOW
    /\ Len(packetsQueue) > 0
    /\ bytesInFlight > 0

\* The packets of wire of one space, in the order they were sent.
WireOf(space) == SelectSeq(wire, LAMBDA w : w.type = space)

\* C12: within a space the packet numbers on the wire are 0, 1, 2, ... in
\* send order (strictly increasing, no gap, no reuse), a packet without
\* crypto context has no number, and the packets still waiting in the queue
\* have consumed none: the space's next number is the count of its packets
\* on the wire.
C12_NumberedAtRelease ==
    /\ \A space \in Spaces :
        /\ \A k \in 1..Len(WireOf(space)) : WireOf(space)[k].pn = k - 1
        /\ txCurrent[space] = Len(WireOf(space))
    /\ \A i \in 1..Len(wire) :
        wire[i].type \notin Spaces => wire[i].pn = NoPacketNumber

\* One space has sent twice, and a packet of a space that has sent nothing
\* is waiting in the queue.
C12_Witness ==
    /\ \E i \in 1..Len(wire) : wire[i].pn = 1
    /\ \E j \in 1..Len(packetsQueue) :
        /\ packetsQueue[j].type \in Spaces
        /\ txCurrent[packetsQueue[j].type] = FirstPacketNumber

\* C13: packets go on the wire in the order they were handed to
\* queuePackets, each once, none dropped: the wire followed by the queue is
\* the sequence of all packets queued so far, also when a PACKET_SENT
\* listener queued packets while sendPackets was draining.
C13_SentInQueueOrder ==
    /\ Len(wire) + Len(packetsQueue) = nQueued
    /\ \A i \in 1..Len(wire) : wire[i].id = i
    /\ \A j \in 1..Len(packetsQueue) : packetsQueue[j].id = Len(wire) + j

\* The listener queued a packet while a batch of two was being sent.
C13_Witness ==
    /\ ev.op = "queuePackets"
    /\ Len(ev.packets) = 2
    /\ nQueued = ev.wireLen + 3
    /\ Len(wire) = ev.wireLen + 3

(***************************************************************************)
(* Properties of FrameParser and PacketHandler.                            *)
(***************************************************************************)
\* The payload has gone through FrameParser.parse.
Parsed == step \in {"parsed", "handled", "error"}

\* The packet types PacketHandler.handle has a case for.
HandledTypes == {"Initial", "Handshake", "Protected1RTT"}

\* C14: the frames FrameParser.parse returns lie one behind the other in the
\* payload, the first at offset 0 and each at the offset where the one
\* before ended, so they are in the order of their type bytes; the frames
\* handed to FrameHandler.handle are those frames in that order, one call
\* after the other, and all of them when no call throws.
C14_FramesInWireOrder ==
    /\ Parsed =>
        \A i \in 1..Len(parsed.frames) :
            /\ parsed.frames[i].at = IF i = 1 THEN 0 ELSE parsed.frames[i - 1].offset
            /\ parsed.frames[i].at < parsed.frames[i].offset
    /\ Len(handled) > 0 =>
        /\ Len(handled) <= Len(parsed.frames)
        /\ \A i \in 1..Len(handled) : handled[i] = parsed.frames[i].frame
    /\ step = "handled" /\ packetType \in HandledTypes =>
        Len(handled) = Len(parsed.frames)

C14_Witness ==
    /\ step = "handled"
    /\ Len(handled) = 3
    /\ handled[1].kind # handled[2].kind
    /\ handled[2].kind # handled[3].kind

\* The type bytes parseFrame has a case for.
KnownFrameTypes ==
    {PADDING, RST_STREAM, CONNECTION_CLOSE, APPLICATION_CLOSE, MAX_DATA,
     MAX_STREAM_DATA, MAX_STREAM_ID, PING, BLOCKED, STREAM_BLOCKED,
     STREAM_ID_BLOCKED, NEW_CONNECTION_ID, STOP_SENDING, ACK, PATH_CHALLENGE,
     PATH_RESPONSE, CRYPTO, ACK_ECN} \cup (STREAM..STREAM_MAX_NR)

\* Parsing came to a type byte that is no known frame type.
CameToUnknownType ==
    /\ Parsed
    /\ parsed.offset < Len(payload)
    /\ payload[parsed.offset + 1] \notin KnownFrameTypes

\* C16: when parsing comes to a type byte that is none of the known frame
\* types, FrameParser.parse throws FRAME_ENCODING_ERROR and returns no frame
\* list.
C16_UnknownTypeFails ==
    CameToUnknownType =>
        parsed.tag = "throw" /\ parsed.error = "FRAME_ENCODING_ERROR"

\* C17: a PADDING frame whose type byte starts a run of N 0x00 bytes has
\* size N and ends at the first byte behind the run.
C17_PaddingSizeIsRunLength ==
    Parsed =>
        \A i \in 1..Len(parsed.frames) :
            parsed.frames[i].frame.kind = "PADDING" =>
                LET runEnd == SkipZeros(payload, parsed.frames[i].at)
                IN  /\ parsed.frames[i].frame.paddingSize = runEnd - parsed.frames[i].at
                    /\ parsed.frames[i].offset = runEnd

\* The fields of the STREAM frame whose type byte is at offset at, read off
\* the payload field by field.
StreamFields(at) ==
    LET type == payload[at + 1]
        streamID == VLIEdecode(payload, at + 1)
        dataOffset == IF (type \div 4) % 2 = 1
                      THEN VLIEdecode(payload, streamID.offset)
                      ELSE [value |-> 0, offset |-> streamID.offset]
        dataLength == IF (type \div 2) % 2 = 1
                      THEN VLIEdecode(payload, dataOffset.offset)
                      ELSE [value |-> Len(payload) - dataOffset.offset,
                            offset |-> dataOffset.offset]
    IN  [fin |-> type % 2 = 1,
         len |-> (type \div 2) % 2 = 1,
         off |-> (type \div 4) % 2 = 1,
         streamID |-> streamID.value,
         dataOffset |-> dataOffset.value,
         dataLength |-> dataLength.value,
         dataStart |-> dataLength.offset]

\* C18: a parsed STREAM frame has FIN, LEN and OFF from bits 0, 1 and 2 of
\* its type byte; without OFF its offset is 0; without LEN its data is the
\* rest of the payload, it ends at the payload's end and is the last frame;
\* with LEN its data has the length the length field gives, holds the
\* payload's bytes behind the length field, and the frame ends right behind
\* them.
C18_StreamFlags ==
    Parsed =>
        \A i \in 1..Len(parsed.frames) :
            parsed.frames[i].frame.kind = "STREAM" =>
                LET frame == parsed.frames[i].frame
                    fields == StreamFields(parsed.frames[i].at)
                IN  /\ frame.fin = fields.fin
                    /\ frame.streamID = fields.streamID
                    /\ frame.dataOffset = fields.dataOffset
                    /\ ~fields.off => frame.dataOffset = 0
                    /\ Len(frame.data) = fields.dataLength
                    /\ frame.length = fields.dataLength
                    /\ \A k \in 1..Len(frame.data) :
                        fields.dataStart + k <= Len(payload) =>
                            frame.data[k] = payload[fields.dataStart + k]
                    /\ parsed.frames[i].offset = fields.dataStart + fields.dataLength
                    /\ ~fields.len =>
                        /\ parsed.frames[i].offset = Len(payload)
                        /\ fields.dataStart + Len(frame.data) = Len(payload)
                        /\ i = Len(parsed.frames)
                        /\ parsed.tag = "frames"

C18_Witness ==
    /\ Parsed
    /\ \E i, j \in 1..Len(parsed.frames) :
        /\ i < j
        /\ parsed.frames[i].frame.kind = "STREAM"
        /\ parsed.frames[i].frame.fin
        /\ parsed.frames[i].frame.dataOffset = 8
        /\ parsed.frames[i].frame.data = <<65, 66>>
        /\ parsed.frames[j].frame.kind = "STREAM"
        /\ ~parsed.frames[j].frame.fin
        /\ parsed.frames[j].frame.dataOffset = 0
        /\ parsed.frames[j].frame.data = <<65>>
        /\ (payload[parsed.frames[j].at + 1] \div 2) % 2 = 0

\* C19: the reason phrase of a parsed CONNECTION_CLOSE or APPLICATION_CLOSE
\* frame is the bytes of the payload from the end of the length field on,
\* as many as the length field says.
C19_ReasonPhrase ==
    Parsed =>
        \A i \in 1..Len(parsed.frames) :
            parsed.frames[i].frame.kind \in {"CONNECTION_CLOSE", "APPLICATION_CLOSE"} =>
                LET phraseLength == VLIEdecode(payload, parsed.frames[i].at + 3)
                IN  parsed.frames[i].frame.phrase =
                        [k \in 1..phraseLength.value |->
                            IF phraseLength.offset + k <= Len(payload)
                            THEN payload[phraseLength.offset + k]
                            ELSE -1]

\* C20: a parsed ACK_ECN frame carries the three counts ECT0, ECT1 and CE,
\* read behind the ack blocks, if and only if the ack blocks end before the
\* end of the payload; a frame without counts ends at the payload's end.
C20_EcnCounts ==
    Parsed =>
        \A i \in 1..Len(parsed.frames) :
            parsed.frames[i].frame.kind = "ACK_ECN" =>
                LET frame == parsed.frames[i].frame
                    counts == DecodeEach(payload, frame.blocksEnd, 3, <<>>)
                IN  /\ (Len(frame.ecnCounts) = 3) <=> (frame.blocksEnd < Len(payload))
                    /\ Len(frame.ecnCounts) \in {0, 3}
                    /\ Len(frame.ecnCounts) = 3 =>
                        /\ frame.ecnCounts = counts.values
                        /\ parsed.frames[i].offset = counts.offset
                    /\ Len(frame.ecnCounts) = 0 =>
                        /\ frame.blocksEnd = Len(payload)
                        /\ parsed.frames[i].offset = Len(payload)

C20_Witness ==
    /\ Parsed
    /\ Len(parsed.frames) = 2
    /\ parsed.frames[1].frame.kind = "ACK_ECN"
    /\ parsed.frames[1].frame.ecnCounts = <<1, 2, 3>>
    /\ parsed.frames[2].frame.kind = "ACK_ECN"
    /\ parsed.frames[2].frame.ecnCounts = <<>>

(***************************************************************************)
(* Properties of Server.                                                   *)
(***************************************************************************)
\* The steps that end the processing of a packet: it was handled to the
\* end, or it was rejected in one of the ways of the catch block.
LastSteps == {"startIdleAlarm", "dropped", "versionNegotiation", "ignored",
              "handleError"}

\* The places in the trace that belong to the number-th packet.
StepsOf(number) == { a \in 1..Len(trace) : trace[a].packet = number }

\* C15: Server.onMessage takes the packets of a datagram in the order they
\* lie in it: the steps of packet i all come before the steps of packet
\* i+1, every packet is looked up first, and its processing has ended (it
\* was handled to the end, or rejected) before the next packet is looked
\* up; a packet is handled to the end only if nothing threw.
C15_PacketsInOrder ==
    headerOffsets # <<>> =>
        /\ \A a \in 1..Len(trace) : trace[a].packet \in 1..Len(headerOffsets)
        /\ \A a, b \in 1..Len(trace) : a < b => trace[a].packet <= trace[b].packet
        /\ \A i \in 1..Len(headerOffsets) :
            /\ StepsOf(i) # {}
            /\ \A a \in StepsOf(i) :
                /\ (\A b \in StepsOf(i) : a <= b) <=> trace[a].step = "getConnection"
                /\ (\A b \in StepsOf(i) : b <= a) <=> trace[a].step \in LastSteps
                /\ trace[a].step = "startIdleAlarm" => headerOffsets[i].error = "none"
                /\ trace[a].step = "versionNegotiation" =>
                    headerOffsets[i].error = "VERSION_NEGOTIATION_ERROR"

C15_Witness ==
    /\ Len(headerOffsets) = 2
    /\ headerOffsets[1].error = "PROTOCOL_VIOLATION"
    /\ \E a, b \in 1..Len(trace) :
        /\ a < b
        /\ trace[a] = [packet |-> 1, step |-> "handleError"]
        /\ trace[b] = [packet |-> 2, step |-> "startIdleAlarm"]

\* The connections as the number-th packet of the last datagram found them
\* and as it left them.
Before(number) == snapshots[number]

After(number) ==
    IF number < Len(snapshots) THEN snapshots[number + 1] ELSE connectionManager

\* The number-th packet took this step.
Took(number, what) == \E a \in StepsOf(number) : trace[a].step = what

\* What went out on connection c while the number-th packet had its turn.
SentBy(number, c) ==
    SubSeq(After(number)[c].sent, Len(Before(number)[c].sent) + 1,
           Len(After(number)[c].sent))

\* C25: after the server has answered an Initial of an unsupported version
\* with Version Negotiation, the largest received packet number of the
\* connection's Initial space is absent (it is no packet number).
C25_LargestReceivedAbsent ==
    \A i \in 1..Len(headerOffsets) :
        Took(i, "versionNegotiation") =>
            After(i)[headerOffsets[i].connectionID].highestReceived = -1

\* C26: a packet whose handling raises VERSION_NEGOTIATION_ERROR is not
\* fatal to its connection: the connection state is reset, exactly one
\* packet goes out on the connection and it is Version Negotiation,
\* handleError is not called (no CONNECTION_CLOSE, not closing), and the
\* connection is still in the connection manager.
C26_VersionMismatchNotFatal ==
    \A i \in 1..Len(headerOffsets) :
        LET c == headerOffsets[i].connectionID
        IN  (headerOffsets[i].error = "VERSION_NEGOTIATION_ERROR"
                /\ Took(i, "headerHandler.handle")) =>
                /\ Took(i, "resetConnectionState")
                /\ Took(i, "versionNegotiation")
                /\ SentBy(i, c) = <<"VersionNegotiation">>
                /\ ~Took(i, "handleError")
                /\ After(i)[c].state = "open"
                /\ ~After(i)[c].closed

C26_Witness ==
    /\ Len(headerOffsets) = 2
    /\ headerOffsets[1].error = "VERSION_NEGOTIATION_ERROR"
    /\ Before(1)[1].state = "open"
    /\ Took(1, "versionNegotiation")
    /\ Took(2, "startIdleAlarm")
    /\ connectionManager[1].sent = <<"VersionNegotiation">>

\* C27: a packet that is no Initial and whose destination connection ID is
\* unknown is dropped in silence: no connection is created, nothing is
\* sent, and no connection changes in any way (idle alarms included).
C27_UnknownConnectionDropped ==
    \A i \in 1..Len(headerOffsets) :
        (headerOffsets[i].type # "Initial"
            /\ Before(i)[headerOffsets[i].connectionID].state = "none") =>
            /\ After(i) = Before(i)
            /\ Took(i, "dropped")
            /\ ~Took(i, "handleError")

C27_Witness ==
    /\ Len(headerOffsets) = 2
    /\ headerOffsets[2].type = "Protected1RTT"
    /\ headerOffsets[2].connectionID = 2
    /\ Before(2)[2].state = "none"
    /\ Before(2)[1].state = "open"
    /\ Before(2)[1].idleAlarm
    /\ Took(2, "dropped")

\* C28: errors that let a packet be ignored leave the connection alone.
\* When the headers of a datagram do not parse, nothing is sent and no
\* connection changes; when the parsing of a packet raises
\* IGNORE_PACKET_ERROR, nothing is sent on its connection, handleError is
\* not called, the connection keeps its protocol state and stays in the
\* connection manager, and the packets after it are processed.
C28_IgnoredPacket ==
    \A i \in 1..Len(headerOffsets) :
        LET c == headerOffsets[i].connectionID
        IN  (headerOffsets[i].error = "IGNORE_PACKET_ERROR"
                /\ Took(i, "packetParser.parse")) =>
                /\ Took(i, "ignored")
                /\ SentBy(i, c) = <<>>
                /\ ~Took(i, "handleError")
                /\ After(i)[c].state = Before(i)[c].state
                /\ After(i)[c].state = "open"
                /\ After(i)[c].highestReceived = Before(i)[c].highestReceived
                /\ \A d \in ConnectionIDs \ {c} : After(i)[d] = Before(i)[d]
                /\ i < Len(headerOffsets) => Took(i + 1, "getConnection")

C28_HeaderError ==
    trace' = <<[packet |-> 0, step |-> "headerParser.parse throws"]>> =>
        connectionManager' = NothingSent(connectionManager)

C29_IdleAlarmArmed ==
    headerOffsets # <<>> =>
        LET i == Len(headerOffsets)
            c == headerOffsets[i].connectionID
        IN  (Took(i, "startIdleAlarm") \/ Took(i, "versionNegotiation")
                \/ (Took(i, "ignored") /\ Took(i, "packetParser.parse"))) =>
                connectionManager[c].idleAlarm

RECURSIVE EntriesOf(_, _)
EntriesOf(buffer, offset) ==
    IF offset + 4 > Len(buffer) THEN <<>>
    ELSE LET type == buffer[offset + 1] * 256 + buffer[offset + 2]
             len == buffer[offset + 3] * 256 + buffer[offset + 4]
         IN  IF offset + 4 + len > Len(buffer) THEN <<>>
             ELSE <<[type |-> type, value |-> SubSeq(buffer, offset + 5, offset + 4 + len)]>>
                    \o EntriesOf(buffer, offset + 4 + len)

RECURSIVE EntriesSize(_)
EntriesSize(entries) ==
    IF entries = <<>> THEN 0
    ELSE 4 + Len(Head(entries).value) + EntriesSize(Tail(entries))

\* The buffer is a sequence of whole entries and nothing else.
WholeEntries(buffer) == EntriesSize(EntriesOf(buffer, 0)) = Len(buffer)

\* The tags 0x00..0x0d.
TagSet == 0..13

\* The object fromExtensionBuffer returned, when it returned one.
Returned(result) == result # Undefined /\ result.tag # "throw"

\* C21: when a tag, known or unknown, occurs in two entries of an extension
\* buffer, fromExtensionBuffer throws TRANSPORT_PARAMETER_ERROR and
\* returns no object.
C21_DuplicateTagFails ==
    (extension.tag = "Buffer" /\ received # Undefined) =>
        LET entries == EntriesOf(extension.bytes, 0)
        IN  (\E i, j \in 1..Len(entries) : i < j /\ entries[i].type = entries[j].type)
                => received = Throw("TRANSPORT_PARAMETER_ERROR")

C21_Witness ==
    /\ extension.tag = "Buffer"
    /\ received = Throw("TRANSPORT_PARAMETER_ERROR")
    /\ LET entries == EntriesOf(extension.bytes, 0)
       IN  /\ Len(entries) = 3
           /\ entries[1].type = 32
           /\ entries[2].type = INITIAL_MAX_DATA
           /\ entries[3].type = 32

\* The buffer without its entries of tags outside 0x00..0x0d.
RECURSIVE KnownEntries(_)
KnownEntries(entries) ==
    IF entries = <<>> THEN <<>>
    ELSE (IF Head(entries).type \in TagSet
          THEN Entry(Head(entries).type, Head(entries).value) ELSE <<>>)
            \o KnownEntries(Tail(entries))

\* What was received is what the buffer without its entries of unknown tags
\* parses to: no error where that one has none, and the same value for
\* every tag of 0x00..0x0d.
ParsesAsKnownEntries(entries) ==
    \A isServer \in BOOLEAN :
        LET other == fromExtensionBuffer(isServer, KnownEntries(entries), Version)
        IN  other.tag # "throw" =>
                /\ Returned(received)
                /\ received.isServer = isServer =>
                    \A type \in TagSet :
                        getTransportParameter(received, type)
                            = getTransportParameter(other, type)

\* The places of the entries whose tag is outside 0x00..0x0d.
UnknownEntries(entries) == { i \in 1..Len(entries) : entries[i].type \notin TagSet }

\* C22 as stated: a buffer of whole entries that has, besides the entries
\* of another buffer, entries of tags outside 0x00..0x0d parses without
\* error where the other does, to an object with the same value for every
\* tag of 0x00..0x0d.
C22_AnyUnknownTagsIgnored ==
    (extension.tag = "Buffer" /\ received # Undefined) =>
        LET entries == EntriesOf(extension.bytes, 0)
        IN  (WholeEntries(extension.bytes) /\ UnknownEntries(entries) # {}) =>
                ParsesAsKnownEntries(entries)

\* C22: entries of unknown tags are ignored when no such tag comes twice.
\* A buffer of whole entries that has, besides the entries of another
\* buffer, entries of pairwise different tags outside 0x00..0x0d parses
\* without error where the other does, to an object with the same value
\* for every tag of 0x00..0x0d.
C22_UnknownTagsIgnored ==
    (extension.tag = "Buffer" /\ received # Undefined) =>
        LET entries == EntriesOf(extension.bytes, 0)
            unknown == UnknownEntries(entries)
        IN  (/\ WholeEntries(extension.bytes)
             /\ unknown # {}
             /\ \A i, j \in unknown : i # j => entries[i].type # entries[j].type) =>
                ParsesAsKnownEntries(entries)

C22_Witness ==
    /\ extension.tag = "Buffer"
    /\ Returned(received)
    /\ WholeEntries(extension.bytes)
    /\ LET entries == EntriesOf(extension.bytes, 0)
       IN  /\ Len(entries) = 3
           /\ entries[1].type = 65280
           /\ entries[2].type = INITIAL_MAX_DATA
           /\ entries[3].type = 32
    /\ getTransportParameter(received, INITIAL_MAX_DATA) = Number(66051)

\* C23: for every tag of 0x00..0x0d, getTransportParameter(tag) after
\* setTransportParameter(tag, v) returns v, and the call changed no other
\* parameter.
C23_SetThenGet ==
    lastSet # Undefined =>
        /\ getTransportParameter(transportParameters, lastSet.type) = lastSet.value
        /\ \A type \in TagSet \ {lastSet.type} :
            getTransportParameter(transportParameters, type)
                = getTransportParameter(lastSet.before, type)

\* The byte length of the value for each tag that is written.
ByteLength ==
    [type \in TagSet |->
        CASE type \in {0, 1, 10, 11} -> 4
          [] type \in {2, 3, 5, 8} -> 2
          [] type = 6 -> 16
          [] type = 7 -> 1
          [] OTHER -> 0]

\* C24: the buffer getTransportParametersBuffer writes is a sequence of
\* entries type(2) | length(2) | value(length), each tag at most once and
\* each value of the byte length fixed for its tag; fromExtensionBuffer
\* reads it without error, and for every tag that was written
\* getTransportParameter returns the same value on the object read as on
\* the object written.
C24_RoundTrip ==
    extension.tag = "Buffer" =>
        LET entries == EntriesOf(extension.bytes, 0)
        IN  /\ WholeEntries(extension.bytes)
            /\ \A i \in 1..Len(entries) :
                /\ entries[i].type \in TagSet
                /\ Len(entries[i].value) = ByteLength[entries[i].type]
                /\ \A j \in 1..Len(entries) :
                    i # j => entries[i].type # entries[j].type
            /\ received # Undefined =>
                /\ Returned(received)
                /\ \A i \in 1..Len(entries) :
                    getTransportParameter(received, entries[i].type)
                        = getTransportParameter(transportParameters, entries[i].type)

C24_Witness ==
    /\ extension.tag = "Buffer"
    /\ Returned(received)
    /\ transportParameters.isServer
    /\ transportParameters.disableMigration = Boolean(TRUE)
    /\ transportParameters.maxPacketSize = Number(258)
    /\ transportParameters.maxData = Number(66051)
    /\ getTransportParameter(received, STATELESS_RESET_TOKEN)
            = transportParameters.statelessResetToken
    /\ getTransportParameter(received, DISABLE_MIGRATION) = Boolean(TRUE)
    /\ Len(EntriesOf(extension.bytes, 0)) = 11

(***************************************************************************)
(* Properties of the recovery period.                                      *)
(***************************************************************************)
\* The spaces the loss that set endOfRecovery to `number` can have been
\* reported by: those with a settled packet that counts and has this number.
LossSpaces(number) ==
    {wire[i].type : i \in {j \in 1..Len(wire) :
                            /\ ~wire[j].ackOnly
                            /\ wire[j].pn = number
                            /\ j \notin sentPackets}}

\* C31: endOfRecovery is one number for all packet-number spaces: once a
\* loss in one space has set it to L, the ack of a packet numbered <= L of
\* any other space does not grow the congestion window, and a loss whose
\* largest number is <= L in any other space does not reduce it.
C31_RecoverySharedBySpaces ==
    ev.endOfRecovery > 0 =>
        \A space \in Spaces \ LossSpaces(ev.endOfRecovery) :
            /\ (/\ ev.op = "onPacketAcked"
                /\ ~AckedPacket.ackOnly
                /\ AckedPacket.type = space
                /\ AckedPacket.pn <= ev.endOfRecovery) =>
                    congestionWindow = ev.congestionWindow
            /\ (/\ ev.op = "onPacketsLost"
                /\ CountedBytes(ev.packets) > 0
                /\ ev.packets[1].type = space
                /\ LargestCounted(ev.packets) <= ev.endOfRecovery) =>
                    /\ congestionWindow = ev.congestionWindow
                    /\ sshtresh = ev.sshtresh
                    /\ endOfRecovery = ev.endOfRecovery

\* A loss in the Initial space started the recovery period and a
\* Protected1RTT packet was acked inside it.
C31_Witness ==
    /\ ev.op = "onPacketAcked"
    /\ ev.endOfRecovery > 0
    /\ ~AckedPacket.ackOnly
    /\ AckedPacket.type = "Protected1RTT"
    /\ AckedPacket.pn <= ev.endOfRecovery
    /\ LossSpaces(ev.endOfRecovery) = {"Initial"}
    /\ congestionWindow = ev.congestionWindow

\* C32: during recovery the window does not grow: the ack of a packet that
\* counts and is numbered <= endOfRecovery takes its size off bytesInFlight
\* and leaves congestionWindow, sshtresh and endOfRecovery as they were.
C32_AckInRecovery ==
    (/\ ev.op = "onPacketAcked"
     /\ ~AckedPacket.ackOnly
     /\ AckedPacket.pn <= ev.endOfRecovery) =>
        /\ bytesInFlight = ev.bytesInFlight - AckedPacket.size
        /\ congestionWindow = ev.congestionWindow
        /\ sshtresh = ev.sshtresh
        /\ endOfRecovery = ev.endOfRecovery

\* An ack inside a recovery period that a loss started.
C32_Witness ==
    /\ ev.op = "onPacketAcked"
    /\ ~AckedPacket.ackOnly
    /\ ev.endOfRecovery > 0
    /\ AckedPacket.pn <= ev.endOfRecovery
    /\ ev.sshtresh = ev.congestionWindow
    /\ bytesInFlight < ev.bytesInFlight

\* C33: no sendable packet is left waiting: after queuePackets, after the
\* ack of a packet that counts (inside or outside recovery) and after
\* onPacketsLost, the packet queue is empty or bytesInFlight is at least
\* congestionWindow.
C33_NothingStranded ==
    (\/ ev.op \in {"queuePackets", "onPacketsLost"}
     \/ ev.op = "onPacketAcked" /\ ~AckedPacket.ackOnly) =>
        \/ packetsQueue = <<>>
        \/ bytesInFlight >= congestionWindow

\* C34: every loss of a packet that counts outside a recovery period starts
\* a recovery epoch, whatever number is lost: on a controller no loss has
\* touched yet (sshtresh infinite) it sets congestionWindow to
\* max(congestionWindow * 0.5, minimum window) and sshtresh to that window.
C34_FirstLossReduces ==
    (/\ ev.op = "onPacketsLost"
     /\ CountedBytes(ev.packets) > 0
     /\ ev.sshtresh = Infinity) =>
        /\ congestionWindow = Max(ev.congestionWindow \div 2, MINIMUM_WINDOW)
        /\ sshtresh = congestionWindow

\* C35: endOfRecovery never decreases; sshtresh changes only in a new loss
\* event (the events that raise endOfRecovery), which leaves it equal to
\* congestionWindow, and once finite it is at least the minimum window.
C35_RecoveryEpochs ==
    [][/\ endOfRecovery' >= endOfRecovery
       /\ endOfRecovery' # endOfRecovery => sshtresh' = congestionWindow'
       /\ endOfRecovery' = endOfRecovery => sshtresh' = sshtresh
       /\ sshtresh' # Infinity => sshtresh' >= MINIMUM_WINDOW]_vars

\* A second recovery epoch: the threshold follows the window down.
C35_Witness ==
    /\ ev.op = "onPacketsLost"
    /\ ev.endOfRecovery > 0
    /\ endOfRecovery > ev.endOfRecovery
    /\ sshtresh = congestionWindow
    /\ sshtresh < ev.sshtresh
    /\ ev.sshtresh # Infinity

(***************************************************************************)
(* Properties of the offsets FrameParser returns and of the packets        *)
(* PacketHandler dispatches.                                               *)
(***************************************************************************)
\* C36: FrameParser.parse ends on every payload: each frame parseFrame
\* returns ends at an offset strictly greater than the offset it was parsed
\* at, parsing stops where the offset reaches the payload length, and the
\* offset returned for a frame never exceeds the payload length.
C36_OffsetsInsidePayload ==
    Parsed =>
        /\ \A i \in 1..Len(parsed.frames) :
            /\ parsed.frames[i].at < parsed.frames[i].offset
            /\ parsed.frames[i].offset <= byteLength(payload)
        /\ parsed.offset <= byteLength(payload)

\* C39: every packet PacketParser returns with a frame list (Initial,
\* Handshake, 0-RTT protected, 1-RTT) has all of its frames handed to
\* FrameHandler.handle by PacketHandler.handle: when handle returns without
\* an error the frames handled are the frames parsed.
C39_AllFramesDispatched ==
    step = "handled" =>
        /\ Len(handled) = Len(parsed.frames)
        /\ \A i \in 1..Len(handled) : handled[i] = parsed.frames[i].frame

(***************************************************************************)
(* Properties of the size of the transport parameter buffer.               *)
(***************************************************************************)
\* C37: the size getBufferSize computes is the number of bytes
\* getTransportParametersBuffer writes, for a client and a server and for
\* every choice of optional parameters set or not: the last write ends at
\* the end of the buffer, and no write fails for want of room (a buffer
\* with room to spare takes the same writes and ends at the same offset).
C37_SizeIsBytesWritten ==
    extension # Undefined =>
        \A size \in {getBufferSize(transportParameters)} :
            \A exact \in {WriteParameters(transportParameters,
                                          BufferOffset(alloc(size), 0))} :
                \A roomy \in {WriteParameters(transportParameters,
                                              BufferOffset(alloc(size + 4), 0))} :
                    /\ exact.tag = roomy.tag
                    /\ roomy.tag # "throw" => roomy.offset = size
                    /\ extension.tag = "Buffer" =>
                        /\ byteLength(extension.bytes) = size
                        /\ exact.offset = size

\* A server without a stream limit for bidirectional streams, with a packet
\* size and with migration disabled has written its buffer.
C37_Witness ==
    /\ extension.tag = "Buffer"
    /\ transportParameters.isServer
    /\ transportParameters.maxStreamIdBidi = Undefined
    /\ transportParameters.maxStreamIdUni # Undefined
    /\ transportParameters.maxPacketSize # Undefined
    /\ transportParameters.ackDelayExponent = Undefined
    /\ Truthy(transportParameters.disableMigration)
    /\ byteLength(extension.bytes) = 38 + 20 + 6 + 6 + 4

(***************************************************************************)
(* Properties of the packets of one datagram.                              *)
(***************************************************************************)
\* The processing of the number-th packet failed: it did not get to the end
\* of the try block.
Failed(number) == ~Took(number, "startIdleAlarm")

\* Nothing stands in the way of the number-th packet: it throws nothing, its
\* connection is not closing, and the connection is known or the packet is
\* an Initial that creates it.
Sound(number) ==
    LET connection == Before(number)[headerOffsets[number].connectionID]
    IN  /\ headerOffsets[number].error = "none"
        /\ connection.state # "closing"
        /\ connection.state # "none" \/ headerOffsets[number].type = "Initial"

\* C38: a packet whose processing fails (unknown connection, ignored
\* packet, version negotiation, fatal error) does not keep the packets
\* behind it in the datagram from being looked up and processed: each is
\* looked up, its processing ends, and it is handled to the end when nothing
\* stands in its way; behind a packet that went to handleError no packet of
\* the same connection reaches PacketHandler.handle.
C38_ErrorIsolation ==
    \A i, j \in 1..Len(headerOffsets) :
        (i < j /\ Failed(i)) =>
            /\ Took(j, "getConnection")
            /\ \E a \in StepsOf(j) : trace[a].step \in LastSteps
            /\ Sound(j) => Took(j, "packetHandler.handle") /\ ~Failed(j)
            /\ (/\ Took(i, "handleError")
                /\ headerOffsets[j].connectionID = headerOffsets[i].connectionID) =>
                    ~Took(j, "packetHandler.handle")

\* A packet goes to handleError and the packet behind it, of the same
\* connection and with nothing wrong in it, is answered with the close
\* packet and not handled.
C38_Witness ==
    /\ Len(headerOffsets) = 2
    /\ Took(1, "handleError")
    /\ headerOffsets[2] = HeaderOffset("Initial", 1, "none")
    /\ Took(2, "getConnection")
    /\ Took(2, "ignored")
    /\ ~Took(2, "packetHandler.handle")
    /\ SentBy(2, 1) = <<"CONNECTION_CLOSE">>

====
